---- MODULE Spec2Model ----
(***************************************************************************)
(* khitomer: the leader process (Jira Poller, Orchestrator, Temporal       *)
(* client) and the ImplementationWorkflow pipeline run by the worker.      *)
(*                                                                         *)
(*   Spec          the leader process: Poller.Start / Poller.poll feeding  *)
(*                 Orchestrator.Start / processTask through taskChan, and  *)
(*                 the start requests it sends to the Temporal runtime.    *)
(*   SpecFair      Spec with the Go scheduler's fairness on the two loops. *)
(*   SpecPipeline  the runtime and the worker: start and cancel requests   *)
(*                 from the REST/gRPC handlers, and ImplementationWorkflow *)
(*                 executing its seven activities under the retry policy.  *)
(*   SpecWorkspace the pipeline with the worker's disk: the clone, the     *)
(*                 branch, the commit, the push and the pull request.      *)
(*   SpecOrchestrated  the Orchestrator handling two tasks while the runs  *)
(*                 it started execute on the worker.                       *)
(*   SpecNaming    one run for a task whose title is chosen among Titles:  *)
(*                 the branch name and the pull request title.             *)
(*   SpecPlanner   AIPlanner.Plan on the responses of the completion       *)
(*                 backend.                                                *)
(*   SpecTracker   Client.GetTasksByStatus on the issues of a search.      *)
(*   SpecPool      the pipeline's activities dispatched to two workers     *)
(*                 polling one task queue, each with its own disk.         *)
(*   SpecUninitialized  the pipeline on a worker whose activity            *)
(*                 implementations may not have been set.                  *)
(*   SpecTwoLoops  one Poller whose Start was called twice.                *)
(*   SpecSections  AIPlanner.Plan on responses made of section markers     *)
(*                 and step lines.                                         *)
(***************************************************************************)
EXTENDS Naturals, Sequences, FiniteSets, TLC

(***************************************************************************)
(* Bounds of the model.                                                    *)
(***************************************************************************)
\* Issues of the large project.  One more than the channel's capacity, so
\* that the Poller can find the channel full.
NumIssues == 11
\* Issues of the small project.
NumSmall == 4
\* Issues 1..NumFaulty of the small project are those for which plan
\* generation or the start request may fail while the context is live.
NumFaulty == 2
\* Ticks of the Poller's ticker that are received after the context was
\* cancelled, before the process exits.
MaxLateTicks == 1
\* Workflow executions the runtime creates in one behaviour of SpecPipeline
\* in which no collaborator fails.
MaxRuns == 2
\* Lines of a response of the completion backend in SpecPlanner.
MaxLines == 2
\* Calls of AIPlanner.Plan in one behaviour of SpecPlanner.
MaxPlans == 2
\* The longest run of one letter in the titles of SpecNaming: with what is
\* put before and after it, titles of up to MaxFill + 4 bytes.
MaxFill == 30
\* Issues that one search of the tracker returns in SpecTracker.
MaxFound == 2
\* Lines of a response of the completion backend in SpecSections.
MaxSectionLines == 5

(***************************************************************************)
(* Program constants.                                                      *)
(***************************************************************************)
TaskChanCap == 10
MaximumAttempts == 3

statusFilter == <<"Ready for Development", "To Do">>

Range(a, b) == [i \in 1..((b + 1) - a) |-> (a + i) - 1]

\* Key of issue n of the polled project.
IssueKey(n) == "PROJ-" \o ToString(n)

RepositoryNameOf(n) == IF n % 2 = 1 THEN "app" ELSE "lib"

\* Summary of issue n: a string is a sequence of one-character strings.
IssueSummary(n) ==
    IF n % 2 = 1 THEN <<"F", "i", "x", " ", "b", "u", "g", "!">>
                 ELSE <<"A", "d", "d", " ", "a", "_", "b", "/", "2">>

\* issueToTask: the Task built from issue n.
issueToTask(n) ==
    [JiraTicketID    |-> IssueKey(n),
     Title           |-> IssueSummary(n),
     RepositoryOwner |-> "org",
     RepositoryName  |-> RepositoryNameOf(n),
     BaseBranch      |-> "main"]

TaskList(a, b) == [i \in DOMAIN Range(a, b) |-> issueToTask(Range(a, b)[i])]

\* The task lists a search of the configured project may return.  In the
\* small project issues move between the statuses, so that searches return
\* overlapping windows of them; in the large project every issue is found
\* by every search.
SearchResults(proj) ==
    IF proj = "small"
    THEN {TaskList(a, b) : a \in {1, 3}, b \in {2, NumSmall}}
    ELSE {TaskList(1, NumIssues)}

\* GetTasksByStatus: a failed search, or the tasks found.
GetTasksByStatus(proj, status) ==
    {[err |-> TRUE, tasks |-> <<>>]}
        \cup {[err |-> FALSE, tasks |-> r] : r \in SearchResults(proj)}

VARIABLES
    project,         \* the Jira project the client is configured for
    ctxDone,         \* the context of main() has been cancelled
    processedTasks,  \* Poller.processedTasks: ticket ids marked
    taskChan,        \* the channel made by Orchestrator.Start
    pollerPc,        \* where the goroutine of Poller.Start is
    statusIdx,       \* poll: index of the status being handled
    pending,         \* poll: tasks of the current status not yet handled
    queryFailed,     \* poll: a query of the current cycle returned an error
    lateTicks,       \* ticks received after the context was cancelled
    placed,          \* history: ticket ids placed on taskChan, in order
    orchPc,          \* where Orchestrator.Start is
    orchTask,        \* the task processTask is handling
    orchErr,         \* the error Orchestrator.Start returned
    handled,         \* history: <<ticket id, outcome>> of each processTask
    runs,            \* the runtime's workflow executions, oldest first
    githubActivities, \* worker: the GitHub activities are set (non-nil)
    jiraActivities,  \* worker: the Jira activities are set (non-nil)
    faults,          \* the activities' collaborators may fail or time out
    workspace,       \* worker: the directory at each repository path
    pulls,           \* GitHub: the pull requests created, in order
    testEnv,         \* worker: go is on the PATH, the repository is in Go
    statusReply,     \* the reply to the last status query
    response,        \* planner: the text the completion backend returns
    plans,           \* history: what each call of AIPlanner.Plan returned
    searched,        \* history: the last search of the tracker by status
    pool,            \* the disks of a pool of workers, the last attempt
    loops            \* the polling loops of a Poller started twice

pollVars == <<pollerPc, statusIdx, pending, queryFailed>>
orchVars == <<orchPc, orchTask, orchErr, handled>>
workerVars == <<githubActivities, jiraActivities, faults, workspace, pulls,
                testEnv, statusReply, response, plans, searched, pool, loops>>
leaderVars == <<project, ctxDone, processedTasks, taskChan, pollerPc,
                statusIdx, pending, queryFailed, lateTicks, placed, orchPc,
                orchTask, orchErr, handled>>
vars == <<project, ctxDone, processedTasks, taskChan, pollerPc, statusIdx,
          pending, queryFailed, lateTicks, placed, orchPc, orchTask, orchErr,
          handled, runs, githubActivities, jiraActivities, faults, workspace,
          pulls, testEnv, statusReply, response, plans, searched, pool,
          loops>>

NoTask == [JiraTicketID |-> "", Title |-> <<>>, RepositoryOwner |-> "",
           RepositoryName |-> "", BaseBranch |-> ""]

\* An identifier with the two parts in the other order.
WorkflowIDSwapped(ticketID, repositoryName) ==
    "implementation-" \o repositoryName \o "-" \o ticketID

(***************************************************************************)
(* The Temporal runtime as the client sees it.                             *)
(***************************************************************************)
\* StartWorkflow: the workflow id built from ticket id and repository name.
WorkflowID(ticketID, repositoryName) ==
    "implementation-" \o ticketID \o "-" \o repositoryName

NilPRInfo == [nil |-> TRUE, PRURL |-> "", Title |-> <<>>, Head |-> <<>>,
              Base |-> ""]

\* The zero value of an activity result, with the error Get returned.
ZeroResult(err) ==
    [err |-> err, Success |-> FALSE, RepositoryPath |-> "",
     BranchName |-> <<>>, PRInfo |-> NilPRInfo, Passed |-> FALSE,
     Output |-> ""]

\* A workflow execution as the runtime opens it: ImplementationWorkflow is
\* about to execute its first activity.  cancelledAt is the step whose attempt
\* was in progress when cancellation was requested (0: none), retried tells
\* that the retry policy scheduled another attempt of some activity, lastErr
\* is the error of the last attempt whose effects on the workspace are
\* followed.
NewRun(id, input) ==
    [id              |-> id,
     input           |-> input,
     status          |-> "Running",
     step            |-> 1,
     attempt         |-> 0,
     activity        |-> "scheduled",
     cancelRequested |-> FALSE,
     cancelledAt     |-> 0,
     retried         |-> FALSE,
     lastErr         |-> "",
     panicked        |-> FALSE,
     FeatureBranch   |-> <<>>,
     cloneResult     |-> ZeroResult(""),
     branchResult    |-> ZeroResult(""),
     testResult      |-> ZeroResult(""),
     commitResult    |-> ZeroResult(""),
     prResult        |-> ZeroResult(""),
     stepErr         |-> [n \in 1..7 |-> ""],
     log             |-> <<>>,
     result          |-> NilPRInfo,
     err             |-> ""]

\* The open (running) executions of a workflow id.
OpenRuns(rs, id) ==
    {i \in DOMAIN rs : rs[i].id = id /\ rs[i].status = "Running"}

\* An ExecuteWorkflow that returns once the execution has closed, with the
\* failure of its first activity.
ExecuteWorkflowAndGet(rs, id, input) ==
    Append(rs, [NewRun(id, input) EXCEPT
                    !.status = "Failed",
                    !.activity = "closed",
                    !.err = "failed to clone repository"])

\* ExecuteWorkflow with the options StartWorkflow passes (ID and TaskQueue,
\* every other option at its default): a running execution of the id is
\* attached to, otherwise a new execution is opened.
ExecuteWorkflow(rs, id, input) ==
    IF OpenRuns(rs, id) # {} THEN rs ELSE Append(rs, NewRun(id, input))

\* Client.StartWorkflow, when the runtime accepts the request.
StartWorkflow(rs, task, plan, repo) ==
    ExecuteWorkflow(rs, WorkflowID(task.JiraTicketID, task.RepositoryName),
                    [Task |-> task, Plan |-> plan, Repository |-> repo])

\* No status query was answered yet.
NoReply == [api |-> "", WorkflowID |-> "", code |-> 0, Status |-> "",
            ErrorMessage |-> ""]

\* No search of the tracker was made yet.
NoSearch == [status |-> "", failed |-> FALSE, issues |-> <<>>,
             tasks |-> <<>>, err |-> ""]

\* No pool of workers: the one worker's disk is `workspace`.
NoPool == [disks |-> <<>>, last |-> <<>>, clonedOn |-> ""]

\* A path of the workspace at which nothing exists.  writer is history: the
\* id of the run whose activity last wrote the directory.
NoDir == [exists |-> FALSE, cloned |-> FALSE, branches |-> {}, head |-> <<>>,
          committed |-> FALSE, writer |-> ""]

\* filepath.Join(workspaceDir, owner, repo) for the repositories of the model.
WorkspacePaths ==
    {"workspace/" \o owner \o "/" \o repo :
         owner \in {"org", "fork"}, repo \in {"app", "lib"}}

(***************************************************************************)
(* The leader process.                                                     *)
(***************************************************************************)
Init ==
    /\ project \in {"small", "large"}
    /\ ctxDone = FALSE
    /\ processedTasks = {}
    /\ taskChan = <<>>
    /\ pollerPc = "idle"
    /\ statusIdx = 1
    /\ pending = <<>>
    /\ queryFailed = FALSE
    /\ lateTicks = 0
    /\ placed = <<>>
    /\ orchPc = "init"
    /\ orchTask = NoTask
    /\ orchErr = ""
    /\ handled = <<>>
    /\ runs = <<>>
    /\ githubActivities = TRUE
    /\ jiraActivities = TRUE
    /\ faults = TRUE
    /\ workspace = [p \in WorkspacePaths |-> NoDir]
    /\ pulls = <<>>
    /\ testEnv = [goOnPath |-> TRUE, goProject |-> TRUE]
    /\ statusReply = NoReply
    /\ response = <<>>
    /\ plans = <<>>
    /\ searched = NoSearch
    /\ pool = NoPool
    /\ loops = <<>>

\* main: the interrupt signal arrives and cancel() is called.
Cancel ==
    /\ ~ctxDone
    /\ ctxDone' = TRUE
    /\ UNCHANGED <<project, processedTasks, taskChan, pollVars, lateTicks,
                   placed, orchVars, runs, workerVars>>

\* Orchestrator.Start: makes the channel and starts Poller.Start, which
\* begins its initial poll.
OrchestratorStart ==
    /\ orchPc = "init"
    /\ taskChan' = <<>>
    /\ orchPc' = "select"
    /\ pollerPc' = "query"
    /\ statusIdx' = 1
    /\ pending' = <<>>
    /\ queryFailed' = FALSE
    /\ UNCHANGED <<project, ctxDone, processedTasks, lateTicks, placed,
                   orchTask, orchErr, handled, runs, workerVars>>

\* A poll that moves on to the next status while tasks of the current one
\* remain.
PollNextStatusFirst(rest, idx) ==
    IF idx < Len(statusFilter) THEN [pc |-> "query", idx |-> idx + 1]
    ELSE IF rest # <<>> THEN [pc |-> "check", idx |-> idx]
    ELSE [pc |-> "wait", idx |-> 1]

\* poll: where the loops stand once the tasks `rest` of status `idx` remain:
\* at the next task, at the next status, or back in Start's select.
PollNext(rest, idx) ==
    IF rest # <<>> THEN [pc |-> "check", idx |-> idx]
    ELSE IF idx < Len(statusFilter) THEN [pc |-> "query", idx |-> idx + 1]
    ELSE [pc |-> "wait", idx |-> 1]

\* A poll that returns on a failed search where the code continues.
AfterQueryErrorReturn(idx) == [pc |-> "wait", idx |-> 1]

\* poll: where the loops stand after the search of status `idx` failed: the
\* error is logged and the loop continues with the next status.
AfterQueryError(idx) == PollNext(<<>>, idx)

\* poll: GetTasksByStatus for the current status; a failed search is logged
\* and the loop continues with the next status.
PollQuery ==
    /\ pollerPc = "query"
    /\ \E r \in GetTasksByStatus(project, statusFilter[statusIdx]) :
         LET rest == IF r.err THEN <<>> ELSE r.tasks
             nxt  == IF r.err THEN AfterQueryError(statusIdx)
                     ELSE PollNext(rest, statusIdx)
         IN /\ pending' = rest
            /\ pollerPc' = nxt.pc
            /\ statusIdx' = nxt.idx
            /\ queryFailed' = (queryFailed \/ r.err)
    /\ UNCHANGED <<project, ctxDone, processedTasks, taskChan, lateTicks,
                   placed, orchVars, runs, workerVars>>

\* A Poller that remembers nothing: isProcessed without the lookup.
isProcessedNever(ticketID) == FALSE

\* An isProcessed that forgets the tickets whose handling failed.
isProcessedUnlessFailed(ticketID) ==
    /\ ticketID \in processedTasks
    /\ \A k \in DOMAIN handled :
          handled[k][1] = ticketID => handled[k][2] = "started"

\* isProcessed
isProcessed(ticketID) == ticketID \in processedTasks

\* A markProcessed that records nothing.
markProcessedNothing(ticketID) == processedTasks

\* markProcessed
markProcessed(ticketID) == processedTasks \cup {ticketID}

\* poll: the isProcessed test of the next task; a processed one is skipped.
PollCheck ==
    /\ pollerPc = "check"
    /\ IF isProcessed(Head(pending).JiraTicketID)
       THEN LET nxt == PollNext(Tail(pending), statusIdx)
            IN /\ pending' = Tail(pending)
               /\ pollerPc' = nxt.pc
               /\ statusIdx' = nxt.idx
       ELSE /\ pollerPc' = "mark"
            /\ UNCHANGED <<pending, statusIdx>>
    /\ UNCHANGED queryFailed
    /\ UNCHANGED <<project, ctxDone, processedTasks, taskChan, lateTicks,
                   placed, orchVars, runs, workerVars>>

\* poll: markProcessed, then the select that places the task.
PollMark ==
    /\ pollerPc = "mark"
    /\ processedTasks' = markProcessed(Head(pending).JiraTicketID)
    /\ pollerPc' = "send"
    /\ UNCHANGED queryFailed
    /\ UNCHANGED <<project, ctxDone, taskChan, statusIdx, pending, lateTicks,
                   placed, orchVars, runs, workerVars>>

\* A send that does not wait for room on the channel.
PollSendUnbounded ==
    /\ pollerPc = "send"
    /\ taskChan' = Append(taskChan, Head(pending))
    /\ placed' = Append(placed, Head(pending).JiraTicketID)
    /\ LET nxt == PollNext(Tail(pending), statusIdx)
       IN /\ pending' = Tail(pending)
          /\ pollerPc' = nxt.pc
          /\ statusIdx' = nxt.idx
    /\ UNCHANGED <<project, ctxDone, processedTasks, queryFailed, lateTicks,
                   orchVars, runs, workerVars>>

\* A send that drops the task when the channel has no room (a select with
\* a default case).
PollSendOrDrop ==
    /\ pollerPc = "send"
    /\ IF Len(taskChan) < TaskChanCap
       THEN /\ taskChan' = Append(taskChan, Head(pending))
            /\ placed' = Append(placed, Head(pending).JiraTicketID)
       ELSE UNCHANGED <<taskChan, placed>>
    /\ LET nxt == PollNext(Tail(pending), statusIdx)
       IN /\ pending' = Tail(pending)
          /\ pollerPc' = nxt.pc
          /\ statusIdx' = nxt.idx
    /\ UNCHANGED queryFailed
    /\ UNCHANGED <<project, ctxDone, processedTasks, lateTicks, orchVars,
                   runs, workerVars>>

\* poll: case taskChan <- task.
PollSend ==
    /\ pollerPc = "send"
    /\ Len(taskChan) < TaskChanCap
    /\ taskChan' = Append(taskChan, Head(pending))
    /\ placed' = Append(placed, Head(pending).JiraTicketID)
    /\ LET nxt == PollNext(Tail(pending), statusIdx)
       IN /\ pending' = Tail(pending)
          /\ pollerPc' = nxt.pc
          /\ statusIdx' = nxt.idx
    /\ UNCHANGED queryFailed
    /\ UNCHANGED <<project, ctxDone, processedTasks, lateTicks, orchVars,
                   runs, workerVars>>

\* A select whose ctx.Done case goes on with the next task (continue) where
\* the code returns.
PollAbortContinue ==
    /\ pollerPc = "send"
    /\ ctxDone
    /\ LET nxt == PollNext(Tail(pending), statusIdx)
       IN /\ pending' = Tail(pending)
          /\ pollerPc' = nxt.pc
          /\ statusIdx' = nxt.idx
    /\ UNCHANGED queryFailed
    /\ UNCHANGED <<project, ctxDone, processedTasks, taskChan, lateTicks,
                   placed, orchVars, runs, workerVars>>

\* poll: case <-ctx.Done(): poll returns to Start's loop.
PollAbort ==
    /\ pollerPc = "send"
    /\ ctxDone
    /\ pollerPc' = "wait"
    /\ statusIdx' = 1
    /\ pending' = <<>>
    /\ UNCHANGED queryFailed
    /\ UNCHANGED <<project, ctxDone, processedTasks, taskChan, lateTicks,
                   placed, orchVars, runs, workerVars>>

\* Poller.Start: case <-ticker.C: the next poll cycle.
PollerTick ==
    /\ pollerPc = "wait"
    /\ ctxDone => lateTicks < MaxLateTicks
    /\ lateTicks' = IF ctxDone THEN lateTicks + 1 ELSE lateTicks
    /\ pollerPc' = "query"
    /\ statusIdx' = 1
    /\ pending' = <<>>
    /\ queryFailed' = FALSE
    /\ UNCHANGED <<project, ctxDone, processedTasks, taskChan, placed,
                   orchVars, runs, workerVars>>

\* Poller.Start: case <-ctx.Done(): the loop returns.
PollerStop ==
    /\ pollerPc = "wait"
    /\ ctxDone
    /\ pollerPc' = "stopped"
    /\ UNCHANGED queryFailed
    /\ UNCHANGED <<project, ctxDone, processedTasks, taskChan, statusIdx,
                   pending, lateTicks, placed, orchVars, runs, workerVars>>

\* The issues for which plan generation or the start request may fail while
\* the context is live: none in the large project, whose backlog is what
\* fills the channel.
Faulty(proj) ==
    IF proj = "small" THEN {IssueKey(n) : n \in 1..NumFaulty} ELSE {}

\* planner.Plan: a plan, or an error.
Plan(proj, task) ==
    {[err |-> FALSE, Summary |-> "Implementation plan"]}
        \cup IF task.JiraTicketID \in Faulty(proj)
             THEN {[err |-> TRUE, Summary |-> ""]} ELSE {}

\* processTask: the RepositoryInfo built from the task.
RepositoryInfo(task) ==
    [Owner |-> task.RepositoryOwner, Name |-> task.RepositoryName,
     BaseBranch |-> task.BaseBranch]

\* The outcomes of a start request sent under ctx: it fails once ctx is
\* cancelled, and may fail while ctx is live.
StartOutcomes(proj, task, done) ==
    IF done THEN {"error"}
    ELSE {"started"}
             \cup IF task.JiraTicketID \in Faulty(proj) THEN {"error"} ELSE {}

\* A receive that takes the task placed last.
OrchestratorReceiveLast ==
    /\ orchPc = "select"
    /\ taskChan # <<>>
    /\ orchTask' = taskChan[Len(taskChan)]
    /\ taskChan' = SubSeq(taskChan, 1, Len(taskChan) - 1)
    /\ orchPc' = "plan"
    /\ UNCHANGED <<project, ctxDone, processedTasks, pollVars, lateTicks,
                   placed, orchErr, handled, runs, workerVars>>

\* Orchestrator.Start: case task := <-taskChan; processTask begins.
OrchestratorReceive ==
    /\ orchPc = "select"
    /\ taskChan # <<>>
    /\ orchTask' = Head(taskChan)
    /\ taskChan' = Tail(taskChan)
    /\ orchPc' = "plan"
    /\ UNCHANGED <<project, ctxDone, processedTasks, pollVars, lateTicks,
                   placed, orchErr, handled, runs, workerVars>>

\* A loop that returns the error of processTask where the code logs it.
AfterProcessTaskReturn(err) == IF err # "" THEN "returned" ELSE "select"

\* Orchestrator.Start: where the loop stands after processTask returned err
\* ("" for nil): the error is logged and the loop selects again.
AfterProcessTask(err) == "select"

\* processTask: planner.Plan returns; on an error processTask returns it.
ProcessTaskPlan ==
    /\ orchPc = "plan"
    /\ \E p \in Plan(project, orchTask) :
         IF p.err
         THEN /\ orchPc' = AfterProcessTask("failed to generate plan")
              /\ handled' = Append(handled, <<orchTask.JiraTicketID,
                                              "plan error">>)
         ELSE /\ orchPc' = "start"
              /\ UNCHANGED handled
    /\ UNCHANGED <<project, ctxDone, processedTasks, taskChan, pollVars,
                   lateTicks, placed, orchTask, orchErr, runs, workerVars>>

\* processTask: temporalClient.StartWorkflow returns, then processTask.
ProcessTaskStart ==
    /\ orchPc = "start"
    /\ \E o \in StartOutcomes(project, orchTask, ctxDone) :
         IF o = "error"
         THEN /\ orchPc' = AfterProcessTask("failed to start workflow")
              /\ handled' = Append(handled, <<orchTask.JiraTicketID,
                                              "start error">>)
              /\ UNCHANGED runs
         ELSE /\ runs' = StartWorkflow(runs, orchTask,
                                       [Summary |-> "Implementation plan"],
                                       RepositoryInfo(orchTask))
              /\ orchPc' = AfterProcessTask("")
              /\ handled' = Append(handled, <<orchTask.JiraTicketID,
                                              "started">>)
    /\ UNCHANGED <<project, ctxDone, processedTasks, taskChan, pollVars,
                   lateTicks, placed, orchTask, orchErr, workerVars>>

\* A loop that returns nil when it finds the channel empty.
OrchestratorReturnOnEmpty ==
    /\ orchPc = "select"
    /\ taskChan = <<>>
    /\ orchPc' = "returned"
    /\ orchErr' = ""
    /\ UNCHANGED <<project, ctxDone, processedTasks, taskChan, pollVars,
                   lateTicks, placed, orchTask, handled, runs, workerVars>>

\* Orchestrator.Start: case <-ctx.Done(): return ctx.Err().
OrchestratorReturn ==
    /\ orchPc = "select"
    /\ ctxDone
    /\ orchPc' = "returned"
    /\ orchErr' = "context canceled"
    /\ UNCHANGED <<project, ctxDone, processedTasks, taskChan, pollVars,
                   lateTicks, placed, orchTask, handled, runs, workerVars>>

PollerStep ==
    \/ PollQuery
    \/ PollCheck
    \/ PollMark
    \/ PollSend
    \/ PollAbort
    \/ PollerTick
    \/ PollerStop

OrchestratorStep ==
    \/ OrchestratorReceive
    \/ ProcessTaskPlan
    \/ ProcessTaskStart
    \/ OrchestratorReturn

Next ==
    \/ Cancel
    \/ OrchestratorStart
    \/ PollerStep
    \/ OrchestratorStep

Spec == Init /\ [][Next]_vars

\* The Poller and the Orchestrator are goroutines of one process: the Go
\* scheduler runs each of them whenever it can take a step, the ticker keeps
\* firing, and the calls to the tracker, the planner and the runtime return.
SpecFair ==
    /\ Init
    /\ [][Next]_vars
    /\ WF_vars(PollerStep)
    /\ WF_vars(OrchestratorStep)

(***************************************************************************)
(* The pipeline: ImplementationWorkflow and its activities.                *)
(***************************************************************************)
Lower == {"a", "b", "c", "d", "e", "f", "g", "h", "i", "j", "k", "l", "m",
          "n", "o", "p", "q", "r", "s", "t", "u", "v", "w", "x", "y", "z"}
Upper == {"A", "B", "C", "D", "E", "F", "G", "H", "I", "J", "K", "L", "M",
          "N", "O", "P", "Q", "R", "S", "T", "U", "V", "W", "X", "Y", "Z"}
Digit == {"0", "1", "2", "3", "4", "5", "6", "7", "8", "9"}

\* A Go string is a sequence of bytes.  An ASCII byte is written as its
\* character; LeadByte and ContByte are the two bytes of the UTF-8 encoding
\* of U+00E9.
LeadByte == "0xC3"

ContByte == "0xA9"

\* The rune `range` yields for a byte that does not begin a valid encoding.
RuneError == "U+FFFD"

\* for _, r := range s: the runes decoded from the bytes of s.
RECURSIVE Runes(_)
Runes(s) ==
    IF s = <<>> THEN <<>>
    ELSE IF Head(s) = LeadByte /\ Len(s) >= 2 /\ s[2] = ContByte
    THEN <<"U+00E9">> \o Runes(SubSeq(s, 3, Len(s)))
    ELSE IF Head(s) \in {LeadByte, ContByte}
    THEN <<RuneError>> \o Runes(Tail(s))
    ELSE <<Head(s)>> \o Runes(Tail(s))

\* A truncateString that returns the string whole.
truncateStringNever(s, maxLen) == s

\* truncateString: len(s) and s[:maxLen] count bytes.
truncateString(s, maxLen) ==
    IF Len(s) <= maxLen THEN s ELSE SubSeq(s, 1, maxLen)

sanitizeBranchName(s) ==
    LET keep(r) == r \in Lower \cup Upper \cup Digit \cup {"-", "_", " "}
        kept == SelectSeq(Runes(s), keep)
    IN [i \in DOMAIN kept |-> IF kept[i] = " " THEN "-" ELSE kept[i]]

generateBranchName(ticketID, title) ==
    <<"khitomer/", ticketID, "-">> \o sanitizeBranchName(truncateString(title, 30))

\* A title without the ticket id.
generatePRTitleBare(ticketID, title) == title

generatePRTitle(ticketID, title) == <<ticketID, ": ">> \o title

\* The error Get returns once the workflow's context is cancelled.
CanceledError == "canceled"

\* The error of an attempt that did not return within StartToCloseTimeout.
TimeoutError == "activity timeout"

GetRepositoryPath(owner, repo) == "workspace/" \o owner \o "/" \o repo

NotInitialized == ZeroResult("")

\* What one attempt of each activity may return, as (result, error); with an
\* error the result is not decoded by Get.
CloneRepositoryActivity(gh, repo) ==
    IF ~gh THEN {NotInitialized}
    ELSE {[ZeroResult("") EXCEPT
               !.Success = TRUE,
               !.RepositoryPath = GetRepositoryPath(repo.Owner, repo.Name)],
          ZeroResult("failed to clone repository")}

CreateBranchActivity(gh, repo, branchName) ==
    IF ~gh THEN {NotInitialized}
    ELSE {[ZeroResult("") EXCEPT !.Success = TRUE, !.BranchName = branchName],
          ZeroResult("failed to create branch")}

CodeGenerationActivity(task, plan, repoPath) ==
    {[ZeroResult("") EXCEPT !.Success = TRUE],
     ZeroResult("failed to generate code")}

TestingActivity(repoPath) ==
    {[ZeroResult("") EXCEPT !.Passed = TRUE],
     [ZeroResult("") EXCEPT !.Passed = FALSE]}

CommitChangesActivity(gh, repo, repoPath, message) ==
    IF ~gh THEN {NotInitialized}
    ELSE {[ZeroResult("") EXCEPT !.Success = TRUE],
          ZeroResult("failed to commit"),
          ZeroResult("failed to push branch")}

CreatePRActivity(gh, repo, head, title, description) ==
    IF ~gh THEN {NotInitialized}
    ELSE {[ZeroResult("") EXCEPT
               !.Success = TRUE,
               !.PRInfo = [nil   |-> FALSE,
                           PRURL |-> "https://github.com/" \o repo.Owner
                                         \o "/" \o repo.Name \o "/pull/1",
                           Title |-> title,
                           Head  |-> head,
                           Base  |-> repo.BaseBranch]],
          ZeroResult("failed to create pull request")}

UpdateJiraActivity(ja, ticketID, prURL) ==
    IF ~ja THEN {NotInitialized}
    ELSE {[ZeroResult("") EXCEPT !.Success = TRUE],
          ZeroResult("failed to add comment")}

\* The activity ImplementationWorkflow executes at the step the run is at,
\* with the arguments the workflow passes: what one attempt may return.
ExecuteActivity(run, gh, ja) ==
    LET task == run.input.Task
        repo == run.input.Repository
    IN CASE run.step = 1 -> CloneRepositoryActivity(gh, repo)
         [] run.step = 2 ->
              CreateBranchActivity(gh, repo,
                  generateBranchName(task.JiraTicketID, task.Title))
         [] run.step = 3 ->
              CodeGenerationActivity(task, run.input.Plan,
                                     run.cloneResult.RepositoryPath)
         [] run.step = 4 -> TestingActivity(run.cloneResult.RepositoryPath)
         [] run.step = 5 ->
              CommitChangesActivity(gh, repo, run.cloneResult.RepositoryPath,
                                    "")
         [] run.step = 6 ->
              CreatePRActivity(gh, repo, run.FeatureBranch,
                  generatePRTitle(task.JiraTicketID, task.Title), "")
         [] run.step = 7 ->
              UpdateJiraActivity(ja, task.JiraTicketID,
                                 run.prResult.PRInfo.PRURL)

\* ImplementationWorkflow returns (prInfo, err): the runtime closes the
\* execution as completed, cancelled or failed.
Return(run, prInfo, err) ==
    [run EXCEPT !.status = IF err = "" THEN "Completed"
                           ELSE IF err = CanceledError THEN "Canceled"
                           ELSE "Failed",
                !.result = prInfo,
                !.err = err]

\* A workflow that goes from the tests straight to the pull request.
AdvanceSkip(run, n) ==
    [run EXCEPT !.step = IF n = 5 THEN 6 ELSE n, !.attempt = 0]

\* ImplementationWorkflow goes on to execute the activity of step n.
Advance(run, n) == [run EXCEPT !.step = n, !.attempt = 0]

\* Variants of FatalSteps: the commit's error tolerated, the tests' error
\* returned, the tracker update's error returned.
FatalStepsNoCommit == {1, 2, 3, 6}

FatalStepsWithTests == {1, 2, 3, 4, 5, 6}

FatalStepsAll == {1, 2, 3, 4, 5, 6, 7}

\* Steps whose error makes ImplementationWorkflow return it.
FatalSteps == {1, 2, 3, 5, 6}

\* ImplementationWorkflow from the point where Get returns res for the
\* activity of the current step, up to the next ExecuteActivity or the return.
ImplementationWorkflow(run, res) ==
    LET r == [run EXCEPT !.log = Append(@, <<"return", run.step>>),
                         !.stepErr[run.step] = res.err]
    IN IF run.step \in FatalSteps /\ res.err # ""
       THEN Return(r, NilPRInfo, res.err)
       ELSE CASE run.step = 1 -> Advance([r EXCEPT !.cloneResult = res], 2)
              [] run.step = 2 ->
                   Advance([r EXCEPT !.branchResult = res,
                                     !.FeatureBranch = res.BranchName], 3)
              [] run.step = 3 -> Advance(r, 4)
              [] run.step = 4 ->
                   Advance([r EXCEPT !.testResult =
                                IF res.err = "" THEN res ELSE @], 5)
              [] run.step = 5 -> Advance([r EXCEPT !.commitResult = res], 6)
              [] run.step = 6 ->
                   IF res.PRInfo.nil
                   THEN [r EXCEPT !.prResult = res, !.panicked = TRUE]
                   ELSE Advance([r EXCEPT !.prResult = res], 7)
              [] run.step = 7 -> Return(r, r.prResult.PRInfo, "")

\* ImplementationWorkflow once its context is cancelled: the pending Get
\* returns CanceledError, and so does every activity executed after it.
RECURSIVE WorkflowCancelled(_)
WorkflowCancelled(run) ==
    LET r == ImplementationWorkflow(run, ZeroResult(CanceledError))
    IN IF r.status = "Running" /\ ~r.panicked THEN WorkflowCancelled(r) ELSE r

\* The start requests of the REST and gRPC handlers, which Handler.StartWorkflow
\* and Server.StartWorkflow turn into a task, a minimal plan and a repository.
StartWorkflowRequests ==
    [JiraTicketID : {"PROJ-1"}, RepositoryOwner : {"fork"},
     RepositoryName : {"app"}, BaseBranch : {"main"}]

HandlerStartWorkflow(req) ==
    [Task |-> [JiraTicketID    |-> req.JiraTicketID,
               Title           |-> <<>>,
               RepositoryOwner |-> req.RepositoryOwner,
               RepositoryName  |-> req.RepositoryName,
               BaseBranch      |-> req.BaseBranch],
     Plan |-> [Summary |-> "Manual workflow trigger"],
     Repository |-> [Owner |-> req.RepositoryOwner,
                     Name |-> req.RepositoryName,
                     BaseBranch |-> req.BaseBranch]]

\* The start request processTask sends for issue n.
processTask(n) ==
    [Task |-> issueToTask(n),
     Plan |-> [Summary |-> "Implementation plan"],
     Repository |-> RepositoryInfo(issueToTask(n))]

\* The start requests the runtime receives: from the handlers, and from the
\* Orchestrator of this or of a restarted leader process for issue 1.
StartInputs ==
    {HandlerStartWorkflow(req) : req \in StartWorkflowRequests}
        \cup {processTask(1)}

InitPipeline ==
    /\ project = "small"
    /\ ctxDone = FALSE
    /\ processedTasks = {}
    /\ taskChan = <<>>
    /\ pollerPc = "idle"
    /\ statusIdx = 1
    /\ pending = <<>>
    /\ queryFailed = FALSE
    /\ lateTicks = 0
    /\ placed = <<>>
    /\ orchPc = "init"
    /\ orchTask = NoTask
    /\ orchErr = ""
    /\ handled = <<>>
    /\ runs = <<>>
    /\ githubActivities = TRUE
    /\ jiraActivities \in BOOLEAN
    /\ faults \in BOOLEAN
    /\ workspace = [p \in WorkspacePaths |-> NoDir]
    /\ pulls = <<>>
    /\ testEnv = [goOnPath |-> TRUE, goProject |-> TRUE]
    /\ statusReply = NoReply
    /\ response = <<>>
    /\ plans = <<>>
    /\ searched = NoSearch
    /\ pool = NoPool
    /\ loops = <<>>

\* A start request reaches the runtime through Client.StartWorkflow.  Where
\* the collaborators may fail the model follows one execution, elsewhere
\* MaxRuns of them.
RequestStart ==
    /\ \E in \in StartInputs :
         LET rs == StartWorkflow(runs, in.Task, in.Plan, in.Repository)
         IN /\ Len(rs) <= (IF faults THEN 1 ELSE MaxRuns)
            /\ runs' = rs
    /\ UNCHANGED <<leaderVars, workerVars>>

\* The execution GetWorkflow(id, "") names: the latest one of the id.
GetWorkflow(rs, id) ==
    LET mine == {i \in DOMAIN rs : rs[i].id = id}
    IN CHOOSE i \in mine : \A j \in mine : j <= i

\* Client.CancelWorkflow: a running execution records the request; for a
\* closed one Cancel returns an error.
CancelWorkflow(rs, id) ==
    LET i == GetWorkflow(rs, id)
    IN IF rs[i].status = "Running"
       THEN [rs EXCEPT ![i].cancelRequested = TRUE,
                       ![i].cancelledAt =
                           IF rs[i].cancelRequested THEN @
                           ELSE IF rs[i].activity = "started" THEN rs[i].step
                           ELSE 0]
       ELSE rs

\* A cancel request of the REST or gRPC handler for an existing workflow id.
RequestCancel ==
    /\ \E id \in {runs[i].id : i \in DOMAIN runs} :
         runs' = CancelWorkflow(runs, id)
    /\ UNCHANGED <<leaderVars, workerVars>>

\* A worker starts an attempt of the scheduled activity of execution i.
ActivityStart(i) ==
    /\ runs[i].status = "Running"
    /\ ~runs[i].panicked
    /\ runs[i].activity = "scheduled"
    /\ runs' = [runs EXCEPT
                  ![i].activity = "started",
                  ![i].attempt = @ + 1,
                  ![i].log = IF runs[i].attempt = 0
                             THEN Append(@, <<"start", runs[i].step>>)
                             ELSE @]
    /\ UNCHANGED <<leaderVars, workerVars>>

\* A retry policy that allows one attempt more.
RetryOnceMore(run, res) == res.err # "" /\ run.attempt < MaximumAttempts + 1

\* The retry policy: a failed attempt is followed by another one while fewer
\* than MaximumAttempts were made.
Retry(run, res) == res.err # "" /\ run.attempt < MaximumAttempts

\* The activity is over for the workflow once it advanced past it or closed.
AfterWorkflowTask(r, activity) ==
    [r EXCEPT !.activity = IF r.status = "Running" /\ ~r.panicked
                           THEN "scheduled" ELSE activity]

\* How an attempt of the run's current activity may end: with what the
\* activity returns or, where the collaborators may fail, by timing out;
\* where they may not, the activity succeeds and the tests pass.
Attempt(run, gh, ja, flt) ==
    IF flt
    THEN ExecuteActivity(run, gh, ja) \cup {ZeroResult(TimeoutError)}
    ELSE {res \in ExecuteActivity(run, gh, ja) :
            res.err = "" /\ (run.step = 4 => res.Passed)}

\* The attempt in progress for execution i ends: with what the activity
\* returns, or by timing out.  The runtime retries it, or hands the outcome
\* to ImplementationWorkflow; an outcome that arrives after a cancel request
\* or after the execution closed is not delivered.
ActivityComplete(i) ==
    /\ runs[i].activity = "started"
    /\ \E res \in Attempt(runs[i], githubActivities, jiraActivities, faults) :
         runs' = [runs EXCEPT ![i] =
                    IF runs[i].status # "Running"
                    THEN [@ EXCEPT !.activity = "closed"]
                    ELSE IF Retry(@, res)
                    THEN [@ EXCEPT !.activity = "scheduled", !.retried = TRUE]
                    ELSE IF @.cancelRequested
                    THEN [@ EXCEPT !.activity = "closed"]
                    ELSE AfterWorkflowTask(ImplementationWorkflow(@, res),
                                           "closed")]
    /\ UNCHANGED <<leaderVars, workerVars>>

\* The workflow task that delivers the cancel request to execution i: its
\* context is cancelled; an attempt in progress is left to finish.
WorkflowCancel(i) ==
    /\ runs[i].status = "Running"
    /\ ~runs[i].panicked
    /\ runs[i].cancelRequested
    /\ runs' = [runs EXCEPT ![i] =
                  AfterWorkflowTask(WorkflowCancelled(@),
                      IF @.activity = "started" THEN "started" ELSE "closed")]
    /\ UNCHANGED <<leaderVars, workerVars>>

\* Client.GetWorkflowStatus: GetWorkflow hands back a handle for the id
\* without asking the runtime, and the error is always nil.
GetWorkflowStatus(rs, id) == [err |-> ""]

\* Handler.GetWorkflowStatus (GET /workflows/{id}).
HandlerGetWorkflowStatus(rs, id) ==
    LET r == GetWorkflowStatus(rs, id)
    IN IF r.err # ""
       THEN [api |-> "rest", WorkflowID |-> id, code |-> 404, Status |-> "",
             ErrorMessage |-> r.err]
       ELSE [api |-> "rest", WorkflowID |-> id, code |-> 200,
             Status |-> "running", ErrorMessage |-> ""]

\* Server.GetWorkflowStatus (gRPC).
ServerGetWorkflowStatus(rs, id) ==
    LET r == GetWorkflowStatus(rs, id)
    IN IF r.err # ""
       THEN [api |-> "grpc", WorkflowID |-> id, code |-> 0,
             Status |-> "not_found", ErrorMessage |-> r.err]
       ELSE [api |-> "grpc", WorkflowID |-> id, code |-> 0,
             Status |-> "running", ErrorMessage |-> ""]

\* The ids status queries ask for: the one of issue 1, and one that no start
\* request names.
StatusQueryIDs ==
    {WorkflowID(IssueKey(1), RepositoryNameOf(1)),
     WorkflowID("NONE-0", "none")}

\* A status query is answered by the REST or the gRPC handler.  Queries are
\* followed where runs may fail.
RequestStatus ==
    /\ faults
    /\ \E id \in StatusQueryIDs :
         \E reply \in {HandlerGetWorkflowStatus(runs, id),
                        ServerGetWorkflowStatus(runs, id)} :
            /\ reply # statusReply
            /\ statusReply' = reply
    /\ UNCHANGED <<leaderVars, runs, githubActivities, jiraActivities, faults,
                   workspace, pulls, testEnv, response, plans, searched, pool,
                   loops>>

NextPipeline ==
    \/ RequestStart
    \/ RequestCancel
    \/ RequestStatus
    \/ \E i \in DOMAIN runs : ActivityStart(i)
    \/ \E i \in DOMAIN runs : ActivityComplete(i)
    \/ \E i \in DOMAIN runs : WorkflowCancel(i)

SpecPipeline == InitPipeline /\ [][NextPipeline]_vars

(***************************************************************************)
(* Poller.Start called twice on one Poller with one channel: two polling   *)
(* loops, each with its own ticker and its own position in poll, on the    *)
(* one processedTasks map.  No task is received from the channel, which    *)
(* has room for all that the loops place.                                  *)
(***************************************************************************)
\* The goroutines that run Poller.Start.
Loops == {1, 2}

InitTwoLoops ==
    /\ project = "small"
    /\ ctxDone = FALSE
    /\ processedTasks = {}
    /\ taskChan = <<>>
    /\ pollerPc = "idle"
    /\ statusIdx = 1
    /\ pending = <<>>
    /\ queryFailed = FALSE
    /\ lateTicks = 0
    /\ placed = <<>>
    /\ orchPc = "init"
    /\ orchTask = NoTask
    /\ orchErr = ""
    /\ handled = <<>>
    /\ runs = <<>>
    /\ githubActivities = TRUE
    /\ jiraActivities = TRUE
    /\ faults = TRUE
    /\ workspace = [p \in WorkspacePaths |-> NoDir]
    /\ pulls = <<>>
    /\ testEnv = [goOnPath |-> TRUE, goProject |-> TRUE]
    /\ statusReply = NoReply
    /\ response = <<>>
    /\ plans = <<>>
    /\ searched = NoSearch
    /\ pool = NoPool
    /\ loops = [l \in Loops |-> [pc |-> "query", idx |-> 1, pending |-> <<>>]]

\* poll in loop l: GetTasksByStatus for the current status.
LoopQuery(l) ==
    /\ loops[l].pc = "query"
    /\ \E r \in GetTasksByStatus(project, statusFilter[loops[l].idx]) :
         LET rest == IF r.err THEN <<>> ELSE r.tasks
             nxt  == IF r.err THEN AfterQueryError(loops[l].idx)
                     ELSE PollNext(rest, loops[l].idx)
         IN loops' = [loops EXCEPT ![l] = [pc |-> nxt.pc, idx |-> nxt.idx,
                                           pending |-> rest]]
    /\ UNCHANGED <<leaderVars, runs, githubActivities, jiraActivities, faults,
                   workspace, pulls, testEnv, statusReply, response, plans,
                   searched, pool>>

\* poll in loop l: the isProcessed test of the next task, under the read
\* lock, which is released when isProcessed returns.
LoopCheck(l) ==
    /\ loops[l].pc = "check"
    /\ IF isProcessed(Head(loops[l].pending).JiraTicketID)
       THEN LET nxt == PollNext(Tail(loops[l].pending), loops[l].idx)
            IN loops' = [loops EXCEPT ![l] =
                            [pc |-> nxt.pc, idx |-> nxt.idx,
                             pending |-> Tail(loops[l].pending)]]
       ELSE loops' = [loops EXCEPT ![l].pc = "mark"]
    /\ UNCHANGED <<leaderVars, runs, githubActivities, jiraActivities, faults,
                   workspace, pulls, testEnv, statusReply, response, plans,
                   searched, pool>>

\* poll in loop l: markProcessed, under the write lock.
LoopMark(l) ==
    /\ loops[l].pc = "mark"
    /\ processedTasks' = markProcessed(Head(loops[l].pending).JiraTicketID)
    /\ loops' = [loops EXCEPT ![l].pc = "send"]
    /\ UNCHANGED <<project, ctxDone, taskChan, pollVars, lateTicks, placed,
                   orchVars, runs, githubActivities, jiraActivities, faults,
                   workspace, pulls, testEnv, statusReply, response, plans,
                   searched, pool>>

\* poll in loop l: case taskChan <- task.
LoopSend(l) ==
    /\ loops[l].pc = "send"
    /\ Len(taskChan) < TaskChanCap
    /\ taskChan' = Append(taskChan, Head(loops[l].pending))
    /\ placed' = Append(placed, Head(loops[l].pending).JiraTicketID)
    /\ LET nxt == PollNext(Tail(loops[l].pending), loops[l].idx)
       IN loops' = [loops EXCEPT ![l] =
                       [pc |-> nxt.pc, idx |-> nxt.idx,
                        pending |-> Tail(loops[l].pending)]]
    /\ UNCHANGED <<project, ctxDone, processedTasks, pollVars, lateTicks,
                   orchVars, runs, githubActivities, jiraActivities, faults,
                   workspace, pulls, testEnv, statusReply, response, plans,
                   searched, pool>>

\* Poller.Start in loop l: case <-ticker.C: the next poll cycle.
LoopTick(l) ==
    /\ loops[l].pc = "wait"
    /\ loops' = [loops EXCEPT ![l] =
                    [pc |-> "query", idx |-> 1, pending |-> <<>>]]
    /\ UNCHANGED <<leaderVars, runs, githubActivities, jiraActivities, faults,
                   workspace, pulls, testEnv, statusReply, response, plans,
                   searched, pool>>

NextTwoLoops ==
    \E l \in Loops :
        \/ LoopQuery(l)
        \/ LoopCheck(l)
        \/ LoopMark(l)
        \/ LoopSend(l)
        \/ LoopTick(l)

SpecTwoLoops == InitTwoLoops /\ [][NextTwoLoops]_vars

(***************************************************************************)
(* A worker on which SetGitHubActivities or SetJiraActivities may not have *)
(* been called before it runs the activities of one execution.             *)
(***************************************************************************)
InitUninitialized ==
    /\ project = "small"
    /\ ctxDone = FALSE
    /\ processedTasks = {}
    /\ taskChan = <<>>
    /\ pollerPc = "idle"
    /\ statusIdx = 1
    /\ pending = <<>>
    /\ queryFailed = FALSE
    /\ lateTicks = 0
    /\ placed = <<>>
    /\ orchPc = "init"
    /\ orchTask = NoTask
    /\ orchErr = ""
    /\ handled = <<>>
    /\ runs = <<>>
    /\ githubActivities \in BOOLEAN
    /\ jiraActivities \in BOOLEAN
    /\ faults = TRUE
    /\ workspace = [p \in WorkspacePaths |-> NoDir]
    /\ pulls = <<>>
    /\ testEnv = [goOnPath |-> TRUE, goProject |-> TRUE]
    /\ statusReply = NoReply
    /\ response = <<>>
    /\ plans = <<>>
    /\ searched = NoSearch
    /\ pool = NoPool
    /\ loops = <<>>

\* processTask starts the workflow of issue 1.
UninitializedStart ==
    /\ runs = <<>>
    /\ LET in == processTask(1)
       IN runs' = StartWorkflow(runs, in.Task, in.Plan, in.Repository)
    /\ UNCHANGED <<leaderVars, workerVars>>

NextUninitialized ==
    \/ UninitializedStart
    \/ \E i \in DOMAIN runs : ActivityStart(i)
    \/ \E i \in DOMAIN runs : ActivityComplete(i)

SpecUninitialized == InitUninitialized /\ [][NextUninitialized]_vars

(***************************************************************************)
(* The Orchestrator and the worker together: the executions the            *)
(* Orchestrator's start requests open run on the worker while the loop     *)
(* goes on.  The behaviours begin where the Poller's initial cycle has     *)
(* placed issues 1 and 2 and waits for its next tick.                      *)
(***************************************************************************)
InitOrchestrated ==
    /\ project = "small"
    /\ ctxDone = FALSE
    /\ processedTasks = {IssueKey(1), IssueKey(2)}
    /\ taskChan = TaskList(1, 2)
    /\ pollerPc = "wait"
    /\ statusIdx = 1
    /\ pending = <<>>
    /\ queryFailed = FALSE
    /\ lateTicks = 0
    /\ placed = <<IssueKey(1), IssueKey(2)>>
    /\ orchPc = "select"
    /\ orchTask = NoTask
    /\ orchErr = ""
    /\ handled = <<>>
    /\ runs = <<>>
    /\ githubActivities = TRUE
    /\ jiraActivities = TRUE
    /\ faults = TRUE
    /\ workspace = [p \in WorkspacePaths |-> NoDir]
    /\ pulls = <<>>
    /\ testEnv = [goOnPath |-> TRUE, goProject |-> TRUE]
    /\ statusReply = NoReply
    /\ response = <<>>
    /\ plans = <<>>
    /\ searched = NoSearch
    /\ pool = NoPool
    /\ loops = <<>>

NextOrchestrated ==
    \/ Cancel
    \/ OrchestratorStep
    \/ \E i \in DOMAIN runs : ActivityStart(i)
    \/ \E i \in DOMAIN runs : ActivityComplete(i)

SpecOrchestrated == InitOrchestrated /\ [][NextOrchestrated]_vars

(***************************************************************************)
(* The worker's workspace and GitHub: what the GitHub activities do to the *)
(* directories under workspaceDir and to the repository's pull requests.   *)
(***************************************************************************)
\* A clone into the directory as it is found, nothing removed.
CloneRepositoryInPlace(ws, owner, repo, branch, by) ==
    LET path == GetRepositoryPath(owner, repo)
    IN {[ws   |-> [ws EXCEPT ![path] =
                      [@ EXCEPT !.exists = TRUE, !.cloned = TRUE,
                                !.branches = @ \cup {branch},
                                !.head = branch, !.writer = by]],
         path |-> path,
         err  |-> ""],
        [ws   |-> [ws EXCEPT ![path] =
                      [@ EXCEPT !.exists = TRUE, !.writer = by]],
         path |-> "",
         err  |-> "failed to clone repository"]}

\* Client.CloneRepository for run `by`: the directory at the path is removed
\* and made anew, then the clone succeeds or fails.
CloneRepository(ws, owner, repo, branch, by) ==
    LET path == GetRepositoryPath(owner, repo)
    IN {[ws   |-> [ws EXCEPT ![path] =
                      [exists |-> TRUE, cloned |-> TRUE, branches |-> {branch},
                       head |-> branch, committed |-> FALSE, writer |-> by]],
         path |-> path,
         err  |-> ""],
        [ws   |-> [ws EXCEPT ![path] =
                      [exists |-> TRUE, cloned |-> FALSE, branches |-> {},
                       head |-> <<>>, committed |-> FALSE, writer |-> by]],
         path |-> "",
         err  |-> "failed to clone repository"]}

\* Client.CreateBranch on directory d: PlainOpen, checkout of the base branch,
\* then checkout with Create, which go-git refuses for a branch that exists.
CreateBranch(d, baseBranch, newBranch, by) ==
    IF ~d.cloned THEN [dir |-> d, err |-> "failed to open repository"]
    ELSE IF baseBranch \notin d.branches
    THEN [dir |-> d, err |-> "failed to checkout base branch"]
    ELSE IF newBranch \in d.branches
    THEN [dir |-> [d EXCEPT !.head = baseBranch, !.writer = by],
          err |-> "failed to create branch"]
    ELSE [dir |-> [d EXCEPT !.branches = @ \cup {newBranch},
                            !.head = newBranch, !.writer = by],
          err |-> ""]

\* Client.CommitChanges on directory d: everything is added and committed on
\* the branch that is checked out.
CommitChanges(d, message, by) ==
    IF ~d.cloned THEN [dir |-> d, err |-> "failed to open repository"]
    ELSE [dir |-> [d EXCEPT !.committed = TRUE, !.writer = by], err |-> ""]

\* Client.PushBranch: the push succeeds or fails.
PushBranch(d, branch) ==
    IF ~d.cloned THEN {"failed to open repository"}
    ELSE {"", "failed to push branch"}

\* A GitHub that accepts a pull request whatever is open already.
CreatePullRequestAlways(prs, owner, repo, baseBranch, headBranch, title) ==
    {[prs |-> Append(prs, [Owner |-> owner, Repo |-> repo,
                           Head |-> headBranch, Base |-> baseBranch]),
      err |-> "",
      PRInfo |-> [nil |-> FALSE,
                  PRURL |-> "https://github.com/" \o owner \o "/" \o repo
                                \o "/pull/" \o ToString(Len(prs) + 1),
                  Title |-> title, Head |-> headBranch, Base |-> baseBranch]]}

\* Client.CreatePullRequest: PullRequests.Create, which GitHub rejects when an
\* open pull request for the same head and base exists, and which may fail
\* otherwise too.
CreatePullRequest(prs, owner, repo, baseBranch, headBranch, title) ==
    LET pr == [Owner |-> owner, Repo |-> repo, Head |-> headBranch,
               Base |-> baseBranch]
        rejected == [prs |-> prs, err |-> "failed to create pull request",
                     PRInfo |-> NilPRInfo]
    IN IF \E k \in DOMAIN prs : prs[k] = pr
       THEN {rejected}
       ELSE {rejected,
             [prs |-> Append(prs, pr),
              err |-> "",
              PRInfo |-> [nil |-> FALSE,
                          PRURL |-> "https://github.com/" \o owner \o "/"
                                        \o repo \o "/pull/"
                                        \o ToString(Len(prs) + 1),
                          Title |-> title, Head |-> headBranch,
                          Base |-> baseBranch]]}

\* filepath.Glob(filepath.Join(repoPath, "*.go")): the matches, and an error
\* only for a malformed pattern, which no path of the workspace is.
Glob(env, repoPath) ==
    [matches |-> IF env.goProject THEN {repoPath \o "/main.go"} ELSE {},
     err     |-> FALSE]

\* go test ./... in the directory: in a Go project the tests pass or fail;
\* elsewhere the command fails for want of a module, or finds no packages
\* when a directory above holds one.
GoTest(env) ==
    IF env.goProject
    THEN {[err |-> FALSE, output |-> "ok"], [err |-> TRUE, output |-> "FAIL"]}
    ELSE {[err |-> TRUE, output |-> "go.mod file not found"],
          [err |-> FALSE, output |-> "no packages to test"]}

\* TestingActivity in the environment env: what it returns (never an error).
TestingActivityIn(env, repoPath) ==
    IF env.goOnPath /\ ~Glob(env, repoPath).err
    THEN {[ZeroResult("") EXCEPT !.Passed = ~t.err, !.Output = t.output] :
            t \in GoTest(env)}
    ELSE {[ZeroResult("") EXCEPT !.Passed = TRUE]}

\* An attempt whose effect was made and whose result did not reach the
\* runtime (the attempt timed out or the worker stopped after the call).
ResultLost(o) == [o EXCEPT !.res = ZeroResult(TimeoutError)]

\* One attempt of the activity of the run's current step on the workspace ws
\* and the pull requests prs: the workspace and pull requests it leaves and
\* the result it returns.  Steps 3, 4 and 7 leave both as they are.  In the
\* workspace a branch name is a sequence of pieces, as the feature branch's.
ActivityEffects(run, ws, prs, env) ==
    LET task   == run.input.Task
        repo   == run.input.Repository
        path   == GetRepositoryPath(repo.Owner, repo.Name)
        branch == generateBranchName(task.JiraTicketID, task.Title)
        keep(res) == [ws |-> ws, prs |-> prs, res |-> res]
    IN CASE run.step = 1 ->
              {[ws  |-> c.ws, prs |-> prs,
                res |-> IF c.err = ""
                        THEN [ZeroResult("") EXCEPT !.Success = TRUE,
                                                    !.RepositoryPath = c.path]
                        ELSE ZeroResult(c.err)] :
                 c \in CloneRepository(ws, repo.Owner, repo.Name,
                                       <<repo.BaseBranch>>, run.id)}
         [] run.step = 2 ->
              LET c == CreateBranch(ws[path], <<repo.BaseBranch>>, branch,
                                    run.id)
                  o == [ws  |-> [ws EXCEPT ![path] = c.dir], prs |-> prs,
                        res |-> IF c.err = ""
                                THEN [ZeroResult("") EXCEPT
                                          !.Success = TRUE,
                                          !.BranchName = branch]
                                ELSE ZeroResult(c.err)]
              IN IF c.err = "" THEN {o, ResultLost(o)} ELSE {o}
         [] run.step \in {3, 7} ->
              {keep(res) : res \in Attempt(run, TRUE, TRUE, FALSE)}
         [] run.step = 4 ->
              {keep(res) :
                 res \in TestingActivityIn(env, run.cloneResult.RepositoryPath)}
         [] run.step = 5 ->
              LET c == CommitChanges(ws[run.cloneResult.RepositoryPath], "",
                                     run.id)
                  w == [ws EXCEPT ![run.cloneResult.RepositoryPath] = c.dir]
              IN IF c.err # ""
                 THEN {keep(ZeroResult(c.err))}
                 ELSE {[ws |-> w, prs |-> prs,
                        res |-> IF e = ""
                                THEN [ZeroResult("") EXCEPT !.Success = TRUE]
                                ELSE ZeroResult(e)] :
                          e \in PushBranch(c.dir, run.FeatureBranch)}
         [] run.step = 6 ->
              LET made == {[ws |-> ws, prs |-> c.prs,
                            res |-> IF c.err = ""
                                    THEN [ZeroResult("") EXCEPT
                                              !.Success = TRUE,
                                              !.PRInfo = c.PRInfo]
                                    ELSE ZeroResult(c.err)] :
                             c \in CreatePullRequest(prs, repo.Owner,
                                       repo.Name, repo.BaseBranch,
                                       run.FeatureBranch,
                                       generatePRTitle(task.JiraTicketID,
                                                       task.Title))}
              IN made \cup {ResultLost(o) : o \in {m \in made : m.res.err = ""}}

\* The issues whose runs share the worker: both of repository org/app.
WorkspaceIssues == {1, 3}

InitWorkspace ==
    /\ project = "small"
    /\ ctxDone = FALSE
    /\ processedTasks = {}
    /\ taskChan = <<>>
    /\ pollerPc = "idle"
    /\ statusIdx = 1
    /\ pending = <<>>
    /\ queryFailed = FALSE
    /\ lateTicks = 0
    /\ placed = <<>>
    /\ orchPc = "init"
    /\ orchTask = NoTask
    /\ orchErr = ""
    /\ handled = <<>>
    /\ runs = <<>>
    /\ githubActivities = TRUE
    /\ jiraActivities = TRUE
    /\ faults = TRUE
    /\ workspace = [p \in WorkspacePaths |-> NoDir]
    /\ pulls = <<>>
    /\ testEnv \in [goOnPath : BOOLEAN, goProject : BOOLEAN]
    /\ statusReply = NoReply
    /\ response = <<>>
    /\ plans = <<>>
    /\ searched = NoSearch
    /\ pool = NoPool
    /\ loops = <<>>

\* processTask starts the workflow of an issue that has no execution yet.
WorkspaceStart ==
    /\ \E n \in WorkspaceIssues :
         LET in == processTask(n)
         IN /\ \A i \in DOMAIN runs :
                 runs[i].id # WorkflowID(in.Task.JiraTicketID,
                                         in.Task.RepositoryName)
            /\ runs' = StartWorkflow(runs, in.Task, in.Plan, in.Repository)
    /\ UNCHANGED <<leaderVars, workerVars>>

\* The attempt in progress for execution i ends, having done to the workspace
\* and to GitHub what its activity does; the runtime retries it or hands the
\* result to ImplementationWorkflow.
WorkspaceActivityComplete(i) ==
    /\ runs[i].status = "Running"
    /\ runs[i].activity = "started"
    /\ \E o \in ActivityEffects(runs[i], workspace, pulls, testEnv) :
         /\ workspace' = o.ws
         /\ pulls' = o.prs
         /\ runs' = [runs EXCEPT ![i] =
                       IF Retry(@, o.res)
                       THEN [@ EXCEPT !.activity = "scheduled",
                                      !.retried = TRUE,
                                      !.lastErr = o.res.err]
                       ELSE AfterWorkflowTask(
                                ImplementationWorkflow(
                                    [@ EXCEPT !.lastErr = o.res.err], o.res),
                                "closed")]
    /\ UNCHANGED <<leaderVars, githubActivities, jiraActivities, faults,
                   testEnv, statusReply, response, plans, searched, pool,
                   loops>>

NextWorkspace ==
    \/ WorkspaceStart
    \/ \E i \in DOMAIN runs : ActivityStart(i)
    \/ \E i \in DOMAIN runs : WorkspaceActivityComplete(i)

SpecWorkspace == InitWorkspace /\ [][NextWorkspace]_vars

(***************************************************************************)
(* A pool of workers on one task queue: each worker process has its own    *)
(* disk under its WORKSPACE_DIR, and the runtime hands each attempt of an  *)
(* activity to any worker that polls the queue.                            *)
(***************************************************************************)
\* The worker processes started on the task queue.
Workers == {"worker-1", "worker-2"}

InitPool ==
    /\ project = "small"
    /\ ctxDone = FALSE
    /\ processedTasks = {}
    /\ taskChan = <<>>
    /\ pollerPc = "idle"
    /\ statusIdx = 1
    /\ pending = <<>>
    /\ queryFailed = FALSE
    /\ lateTicks = 0
    /\ placed = <<>>
    /\ orchPc = "init"
    /\ orchTask = NoTask
    /\ orchErr = ""
    /\ handled = <<>>
    /\ runs = <<>>
    /\ githubActivities = TRUE
    /\ jiraActivities = TRUE
    /\ faults = TRUE
    /\ workspace = [p \in WorkspacePaths |-> NoDir]
    /\ pulls = <<>>
    /\ testEnv = [goOnPath |-> TRUE, goProject |-> TRUE]
    /\ statusReply = NoReply
    /\ response = <<>>
    /\ plans = <<>>
    /\ searched = NoSearch
    /\ pool = [disks    |-> [w \in Workers |->
                                [p \in WorkspacePaths |-> NoDir]],
               last     |-> <<>>,
               clonedOn |-> ""]
    /\ loops = <<>>

\* processTask starts the workflow of issue 1.
PoolStart ==
    /\ runs = <<>>
    /\ LET in == processTask(1)
       IN runs' = StartWorkflow(runs, in.Task, in.Plan, in.Repository)
    /\ UNCHANGED <<leaderVars, workerVars>>

\* The attempt in progress for execution i was handed to worker w and ends,
\* having done to the disk of w and to GitHub what its activity does.  last
\* is history: the id, the step and the worker of the attempt; clonedOn is
\* history: the worker whose CloneRepositoryActivity returned the result the
\* workflow holds in cloneResult.
PoolActivityComplete(i, w) ==
    /\ runs[i].status = "Running"
    /\ runs[i].activity = "started"
    /\ \E o \in ActivityEffects(runs[i], pool.disks[w], pulls, testEnv) :
         /\ pool' = [disks    |-> [pool.disks EXCEPT ![w] = o.ws],
                     last     |-> <<runs[i].id, runs[i].step, w>>,
                     clonedOn |-> IF runs[i].step = 1 /\ o.res.err = ""
                                  THEN w ELSE pool.clonedOn]
         /\ pulls' = o.prs
         /\ runs' = [runs EXCEPT ![i] =
                       IF Retry(@, o.res)
                       THEN [@ EXCEPT !.activity = "scheduled",
                                      !.retried = TRUE,
                                      !.lastErr = o.res.err]
                       ELSE AfterWorkflowTask(
                                ImplementationWorkflow(
                                    [@ EXCEPT !.lastErr = o.res.err], o.res),
                                "closed")]
    /\ UNCHANGED <<leaderVars, githubActivities, jiraActivities, faults,
                   workspace, testEnv, statusReply, response, plans,
                   searched, loops>>

NextPool ==
    \/ PoolStart
    \/ \E i \in DOMAIN runs : ActivityStart(i)
    \/ \E i \in DOMAIN runs : \E w \in Workers : PoolActivityComplete(i, w)

SpecPool == InitPool /\ [][NextPool]_vars

(***************************************************************************)
(* One execution for an issue whose summary is any of Titles, on the       *)
(* worker's workspace: what ImplementationWorkflow derives from the title. *)
(***************************************************************************)
ExampleTitle ==
    <<"F", "i", "x", " ", "l", "o", "g", "i", "n", " ", "b", "u", "g", "!",
      "!">>

Fill(n) == [i \in 1..n |-> "a"]

\* Summaries as the tracker returns them, in UTF-8: shorter than, as long as
\* and longer than the 30 bytes truncateString keeps, with characters that
\* are kept, replaced and dropped, and with U+00E9 before or across the cut.
Titles ==
    {ExampleTitle}
        \cup {pre \o Fill(n) \o suf :
                 pre \in {<<>>, <<LeadByte, ContByte>>, <<" ", "/">>},
                 n \in (MaxFill - 3)..MaxFill,
                 suf \in {<<>>, <<LeadByte, ContByte>>, <<"_", "Z">>}}

InitNaming ==
    /\ project = "small"
    /\ ctxDone = FALSE
    /\ processedTasks = {}
    /\ taskChan = <<>>
    /\ pollerPc = "idle"
    /\ statusIdx = 1
    /\ pending = <<>>
    /\ queryFailed = FALSE
    /\ lateTicks = 0
    /\ placed = <<>>
    /\ orchPc = "init"
    /\ orchTask = NoTask
    /\ orchErr = ""
    /\ handled = <<>>
    /\ runs = <<>>
    /\ githubActivities = TRUE
    /\ jiraActivities = TRUE
    /\ faults = TRUE
    /\ workspace = [p \in WorkspacePaths |-> NoDir]
    /\ pulls = <<>>
    /\ testEnv = [goOnPath |-> TRUE, goProject |-> TRUE]
    /\ statusReply = NoReply
    /\ response = <<>>
    /\ plans = <<>>
    /\ searched = NoSearch
    /\ pool = NoPool
    /\ loops = <<>>

\* processTask starts the workflow of issue 1, whose summary is any of Titles.
NamingStart ==
    /\ runs = <<>>
    /\ \E title \in Titles :
         LET task == [issueToTask(1) EXCEPT !.Title = title]
         IN runs' = StartWorkflow(runs, task,
                                  [Summary |-> "Implementation plan"],
                                  RepositoryInfo(task))
    /\ UNCHANGED <<leaderVars, workerVars>>

NextNaming ==
    \/ NamingStart
    \/ \E i \in DOMAIN runs : ActivityStart(i)
    \/ \E i \in DOMAIN runs : WorkspaceActivityComplete(i)

SpecNaming == InitNaming /\ [][NextNaming]_vars

(***************************************************************************)
(* AIPlanner: Plan, parseResponse and parseStep.  A text is a sequence of  *)
(* pieces: a space, a line break, one of the markers the parser looks for  *)
(* ("SUMMARY:", "STEPS:", "FILES_MODIFY:", "FILES_CREATE:", "COMPLEXITY:", *)
(* "[TYPE:", "]", ".", ","), or a word that contains none of these.        *)
(***************************************************************************)
RECURSIVE TrimLeft(_)
TrimLeft(s) == IF s # <<>> /\ Head(s) = " " THEN TrimLeft(Tail(s)) ELSE s

RECURSIVE TrimRight(_)
TrimRight(s) ==
    IF s # <<>> /\ s[Len(s)] = " "
    THEN TrimRight(SubSeq(s, 1, Len(s) - 1)) ELSE s

\* strings.TrimSpace
TrimSpace(s) == TrimRight(TrimLeft(s))

\* strings.HasPrefix, for a prefix of one piece
HasPrefix(s, prefix) == s # <<>> /\ Head(s) = prefix

\* A TrimPrefix that leaves the prefix in place.
TrimPrefixKeep(s, prefix) == s

\* strings.TrimPrefix
TrimPrefix(s, prefix) == IF HasPrefix(s, prefix) THEN Tail(s) ELSE s

\* strings.TrimSuffix
TrimSuffix(s, suffix) ==
    IF s # <<>> /\ s[Len(s)] = suffix THEN SubSeq(s, 1, Len(s) - 1) ELSE s

\* strings.Index: the position of the first sep in s, counted from 1; 0 when
\* there is none (Go counts from 0 and returns -1).
Index(s, sep) ==
    IF \E i \in DOMAIN s : s[i] = sep
    THEN CHOOSE i \in DOMAIN s :
             s[i] = sep /\ \A j \in 1..(i - 1) : s[j] # sep
    ELSE 0

\* strings.Split
RECURSIVE Split(_, _)
Split(s, sep) ==
    LET i == Index(s, sep)
    IN IF i = 0 THEN <<s>>
       ELSE <<SubSeq(s, 1, i - 1)>> \o Split(SubSeq(s, i + 1, Len(s)), sep)

\* parseStep: the step number is removed up to the first ".", then the type
\* is taken from "[TYPE: ...]" and the description cut before it.
parseStep(line, order) ==
    LET l0       == TrimSpace(line)
        dot      == Index(l0, ".")
        l1       == IF dot # 0 THEN TrimSpace(SubSeq(l0, dot + 1, Len(l0)))
                    ELSE l0
        idx      == Index(l1, "[TYPE:")
        typePart == SubSeq(l1, idx, Len(l1))
        endIdx   == IF idx = 0 THEN 0 ELSE Index(typePart, "]")
        typeStr  == TrimSpace(TrimSuffix(
                        TrimPrefix(SubSeq(typePart, 1, endIdx), "[TYPE:"),
                        "]"))
    IN [Order        |-> order,
        Description  |-> IF endIdx # 0 THEN TrimSpace(SubSeq(l1, 1, idx - 1))
                         ELSE l1,
        ActivityType |-> IF endIdx # 0 /\ typeStr # <<>> THEN typeStr
                         ELSE <<"codegen">>]

\* parseResponse: the plan as it is created, before the first line.
NewPlan ==
    [nil |-> FALSE, Summary |-> <<>>, Steps |-> <<>>, FilesToModify |-> <<>>,
     FilesToCreate |-> <<>>, EstimatedComplexity |-> <<>>]

\* The plan returned with an error.
NilPlan ==
    [nil |-> TRUE, Summary |-> <<>>, Steps |-> <<>>, FilesToModify |-> <<>>,
     FilesToCreate |-> <<>>, EstimatedComplexity |-> <<>>]

\* parseResponse: the file list of a FILES_MODIFY: or FILES_CREATE: line,
\* which replaces the list `old` unless it is empty.
ParseFiles(line, prefix, old) ==
    LET files == TrimSpace(TrimPrefix(line, prefix))
        names == Split(files, ",")
    IN IF files # <<>> THEN [i \in DOMAIN names |-> TrimSpace(names[i])]
       ELSE old

\* A loop body that numbers the steps of each STEPS: section from 1.
ParseLineRestarting(st, raw) ==
    LET line == TrimSpace(raw)
    IN IF line = <<>> THEN st
       ELSE IF HasPrefix(line, "SUMMARY:")
       THEN [st EXCEPT
                !.plan.Summary = TrimSpace(TrimPrefix(line, "SUMMARY:")),
                !.currentSection = "summary"]
       ELSE IF HasPrefix(line, "STEPS:")
       THEN [st EXCEPT !.currentSection = "steps", !.stepOrder = 1]
       ELSE IF HasPrefix(line, "FILES_MODIFY:")
                \/ HasPrefix(line, "FILES_CREATE:")
                \/ HasPrefix(line, "COMPLEXITY:")
       THEN [st EXCEPT !.currentSection = ""]
       ELSE IF st.currentSection = "steps"
       THEN [st EXCEPT
                !.plan.Steps = Append(@, parseStep(line, st.stepOrder)),
                !.stepOrder = @ + 1]
       ELSE st

\* parseResponse: the body of the loop over the lines, on the plan, the
\* current section and the step order.
ParseLine(st, raw) ==
    LET line == TrimSpace(raw)
    IN IF line = <<>> THEN st
       ELSE IF HasPrefix(line, "SUMMARY:")
       THEN [st EXCEPT
                !.plan.Summary = TrimSpace(TrimPrefix(line, "SUMMARY:")),
                !.currentSection = "summary"]
       ELSE IF HasPrefix(line, "STEPS:")
       THEN [st EXCEPT !.currentSection = "steps"]
       ELSE IF HasPrefix(line, "FILES_MODIFY:")
       THEN [st EXCEPT
                !.plan.FilesToModify = ParseFiles(line, "FILES_MODIFY:", @),
                !.currentSection = ""]
       ELSE IF HasPrefix(line, "FILES_CREATE:")
       THEN [st EXCEPT
                !.plan.FilesToCreate = ParseFiles(line, "FILES_CREATE:", @),
                !.currentSection = ""]
       ELSE IF HasPrefix(line, "COMPLEXITY:")
       THEN [st EXCEPT
                !.plan.EstimatedComplexity =
                    TrimSpace(TrimPrefix(line, "COMPLEXITY:")),
                !.currentSection = ""]
       ELSE IF st.currentSection = "steps"
       THEN [st EXCEPT
                !.plan.Steps = Append(@, parseStep(line, st.stepOrder)),
                !.stepOrder = @ + 1]
       ELSE st

RECURSIVE ParseLines(_, _)
ParseLines(st, lines) ==
    IF lines = <<>> THEN st
    ELSE ParseLines(ParseLine(st, Head(lines)), Tail(lines))

\* parseResponse: the plan and the error (always nil) it returns.
parseResponse(text, task) ==
    LET st == ParseLines([plan |-> NewPlan, currentSection |-> "",
                          stepOrder |-> 1],
                         Split(text, "\n"))
    IN [plan |-> IF st.plan.Summary = <<>>
                 THEN [st.plan EXCEPT
                          !.Summary = <<"Implementation plan for ",
                                        task.JiraTicketID>>]
                 ELSE st.plan,
        err  |-> ""]

\* What CreateChatCompletion may return when the model's text is `text`: an
\* error, no candidate, or the text as the first candidate.
CreateChatCompletion(text) ==
    {[err |-> TRUE, Choices |-> <<>>],
     [err |-> FALSE, Choices |-> <<>>],
     [err |-> FALSE, Choices |-> <<text>>]}

\* A Plan that rejects a text in which it finds no step.
AIPlannerPlanStrict(resp, task) ==
    IF resp.err
    THEN [plan |-> NilPlan, err |-> "failed to create chat completion"]
    ELSE IF Len(resp.Choices) = 0
    THEN [plan |-> NilPlan, err |-> "no response from AI"]
    ELSE LET r == parseResponse(resp.Choices[1], task)
         IN IF r.plan.Steps = <<>>
            THEN [plan |-> NilPlan, err |-> "failed to parse AI response"]
            ELSE r

\* AIPlanner.Plan, from the point where CreateChatCompletion returned resp.
AIPlannerPlan(resp, task) ==
    IF resp.err
    THEN [plan |-> NilPlan, err |-> "failed to create chat completion"]
    ELSE IF Len(resp.Choices) = 0
    THEN [plan |-> NilPlan, err |-> "no response from AI"]
    ELSE LET r == parseResponse(resp.Choices[1], task)
         IN IF r.err # ""
            THEN [plan |-> NilPlan, err |-> "failed to parse AI response"]
            ELSE r

\* Lines the model may write: headed by each marker, with and without text;
\* steps with and without a number and a type; blank; free text.
ResponseLines ==
    {<<>>,
     <<"Thanks">>,
     <<" ", "SUMMARY:", " ", "Add", " ", "cache", " ">>,
     <<"SUMMARY:", " ">>,
     <<"SUMMARY:", "Fix">>,
     <<"STEPS:">>,
     <<"1", ".", " ", "Add", " ", "cache", " ", "[TYPE:", " ", "testing",
       " ", "]">>,
     <<"2", ".", "Fix", "[TYPE:", " ", "]">>,
     <<"Fix", " ", "[TYPE:", "review">>,
     <<"Run", " ", "[TYPE:", "review", "]", ".">>,
     <<"FILES_MODIFY:", " ", "a", " ", ",", "b">>,
     <<"FILES_CREATE:">>,
     <<"COMPLEXITY:", " ", "low">>}

RECURSIVE Join(_)
Join(lines) ==
    IF lines = <<>> THEN <<>>
    ELSE IF Len(lines) = 1 THEN lines[1]
    ELSE lines[1] \o <<"\n">> \o Join(Tail(lines))

\* The texts of up to MaxLines lines.
Responses ==
    {Join(ls) : ls \in UNION {[1..k -> ResponseLines] : k \in 0..MaxLines}}

\* The issues plans are asked for.
PlanIssues == {1, 2}

InitPlanner ==
    /\ project = "small"
    /\ ctxDone = FALSE
    /\ processedTasks = {}
    /\ taskChan = <<>>
    /\ pollerPc = "idle"
    /\ statusIdx = 1
    /\ pending = <<>>
    /\ queryFailed = FALSE
    /\ lateTicks = 0
    /\ placed = <<>>
    /\ orchPc = "init"
    /\ orchTask = NoTask
    /\ orchErr = ""
    /\ handled = <<>>
    /\ runs = <<>>
    /\ githubActivities = TRUE
    /\ jiraActivities = TRUE
    /\ faults = TRUE
    /\ workspace = [p \in WorkspacePaths |-> NoDir]
    /\ pulls = <<>>
    /\ testEnv = [goOnPath |-> TRUE, goProject |-> TRUE]
    /\ statusReply = NoReply
    /\ response \in Responses
    /\ plans = <<>>
    /\ searched = NoSearch
    /\ pool = NoPool
    /\ loops = <<>>

\* A planner that keeps the text of its earlier calls and parses the new
\* text after it.
PlannerPlanCarrying ==
    /\ Len(plans) < MaxPlans
    /\ \E n \in PlanIssues, resp \in CreateChatCompletion(response) :
         LET seen == IF resp.Choices # <<>> /\ plans # <<>>
                     THEN [resp EXCEPT !.Choices[1] =
                               response \o <<"\n">> \o response]
                     ELSE resp
         IN plans' = Append(plans,
                            [ticket |-> IssueKey(n), resp |-> resp,
                             out |-> AIPlannerPlan(seen, issueToTask(n))])
    /\ UNCHANGED <<leaderVars, runs, githubActivities, jiraActivities, faults,
                   workspace, pulls, testEnv, statusReply, response,
                   searched, pool, loops>>

\* processTask calls planner.Plan for an issue: CreateChatCompletion returns,
\* then Plan.
PlannerPlan ==
    /\ Len(plans) < MaxPlans
    /\ \E n \in PlanIssues, resp \in CreateChatCompletion(response) :
         plans' = Append(plans,
                         [ticket |-> IssueKey(n), resp |-> resp,
                          out |-> AIPlannerPlan(resp, issueToTask(n))])
    /\ UNCHANGED <<leaderVars, runs, githubActivities, jiraActivities, faults,
                   workspace, pulls, testEnv, statusReply, response,
                   searched, pool, loops>>

NextPlanner == PlannerPlan

SpecPlanner == InitPlanner /\ [][NextPlanner]_vars

(***************************************************************************)
(* AIPlanner.Plan on longer responses, of few kinds of lines: sections     *)
(* that follow each other, and one call of Plan.                           *)
(***************************************************************************)
\* Lines the model may write: blank, free text, the STEPS: marker, the
\* markers of two other sections, a numbered step with a type, a bare step.
SectionLines ==
    {<<>>,
     <<"Thanks">>,
     <<"STEPS:">>,
     <<"SUMMARY:", "Fix">>,
     <<"COMPLEXITY:", " ", "low">>,
     <<"1", ".", " ", "Add", " ", "cache", " ", "[TYPE:", " ", "testing",
       " ", "]">>,
     <<" ", "Run", " ">>}

\* The texts of up to MaxSectionLines lines.
SectionResponses ==
    {Join(ls) :
       ls \in UNION {[1..k -> SectionLines] : k \in 0..MaxSectionLines}}

InitSections ==
    /\ project = "small"
    /\ ctxDone = FALSE
    /\ processedTasks = {}
    /\ taskChan = <<>>
    /\ pollerPc = "idle"
    /\ statusIdx = 1
    /\ pending = <<>>
    /\ queryFailed = FALSE
    /\ lateTicks = 0
    /\ placed = <<>>
    /\ orchPc = "init"
    /\ orchTask = NoTask
    /\ orchErr = ""
    /\ handled = <<>>
    /\ runs = <<>>
    /\ githubActivities = TRUE
    /\ jiraActivities = TRUE
    /\ faults = TRUE
    /\ workspace = [p \in WorkspacePaths |-> NoDir]
    /\ pulls = <<>>
    /\ testEnv = [goOnPath |-> TRUE, goProject |-> TRUE]
    /\ statusReply = NoReply
    /\ response \in SectionResponses
    /\ plans = <<>>
    /\ searched = NoSearch
    /\ pool = NoPool
    /\ loops = <<>>

\* processTask calls planner.Plan for issue 1: CreateChatCompletion returns,
\* then Plan.
SectionsPlan ==
    /\ plans = <<>>
    /\ \E resp \in CreateChatCompletion(response) :
         plans' = <<[ticket |-> IssueKey(1), resp |-> resp,
                     out |-> AIPlannerPlan(resp, issueToTask(1))]>>
    /\ UNCHANGED <<leaderVars, runs, githubActivities, jiraActivities, faults,
                   workspace, pulls, testEnv, statusReply, response,
                   searched, pool, loops>>

NextSections == SectionsPlan

SpecSections == InitSections /\ [][NextSections]_vars

(***************************************************************************)
(* The tracker client: GetTasksByStatus, issueToTask and                   *)
(* extractRepositoryInfo on the issues a search returns.  A field key and  *)
(* a field value are texts in pieces, as the planner's; the pieces of a    *)
(* value are spaces, "/", "https://github.com/" and words without these.   *)
(***************************************************************************)
\* The custom field name the leader configures by default.
customField == <<"Repository">>

\* strings.ToLower, on the pieces field keys are made of.
ToLower(s) ==
    [i \in DOMAIN s |->
        CASE s[i] = "Repository" -> "repository"
          [] s[i] = "Git" -> "git"
          [] s[i] = "Team" -> "team"
          [] OTHER -> s[i]]

\* strings.Contains
Contains(s, substr) ==
    \E i \in 1..(Len(s) + 1) :
        /\ i + Len(substr) - 1 <= Len(s)
        /\ SubSeq(s, i, i + Len(substr) - 1) = substr

\* The string that the pieces make.
RECURSIVE Str(_)
Str(s) == IF s = <<>> THEN "" ELSE Head(s) \o Str(Tail(s))

\* extractRepositoryInfo: what the value of a matching field gives: owner and
\* name, or ok = FALSE when the loop goes on to the next field.
ParseRepository(value) ==
    LET repoStr == TrimSpace(value.s)
        none    == [ok |-> FALSE, owner |-> "", name |-> ""]
    IN IF ~value.isString THEN none
       ELSE IF HasPrefix(repoStr, "https://github.com/")
       THEN LET parts == Split(TrimPrefix(repoStr, "https://github.com/"),
                               "/")
            IN IF Len(parts) >= 2
               THEN [ok |-> TRUE, owner |-> Str(parts[1]),
                     name |-> Str(parts[2])]
               ELSE none
       ELSE IF Contains(repoStr, <<"/">>)
       THEN LET parts == Split(repoStr, "/")
            IN IF Len(parts) = 2
               THEN [ok |-> TRUE, owner |-> Str(parts[1]),
                     name |-> Str(parts[2])]
               ELSE none
       ELSE none

\* extractRepositoryInfo: the loop ranges over the map issue.Fields.Unknowns
\* in an order that is not fixed, and returns at the first matching field
\* whose value parses; it returns an error when none does.
extractRepositoryInfo(issue, field) ==
    LET matching == {k \in DOMAIN issue.Unknowns :
                       Contains(ToLower(k), ToLower(field))}
        parsed   == {ParseRepository(issue.Unknowns[k]) : k \in matching}
        found    == {r \in parsed : r.ok}
    IN IF found = {}
       THEN {[owner |-> "", name |-> "",
              err |-> "repository information not found in custom field"]}
       ELSE {[owner |-> r.owner, name |-> r.name, err |-> ""] : r \in found}

\* issueToTask on an issue as the search returns it: a task, nil without an
\* error when the owner or the name is empty, or an error.
issueToTaskOf(issue, field) ==
    {IF r.err # ""
     THEN [nil |-> TRUE, task |-> NoTask,
           err |-> "failed to extract repository info"]
     ELSE IF r.owner = "" \/ r.name = ""
     THEN [nil |-> TRUE, task |-> NoTask, err |-> ""]
     ELSE [nil  |-> FALSE,
           task |-> [JiraTicketID    |-> issue.Key,
                     Title           |-> issue.Summary,
                     RepositoryOwner |-> r.owner,
                     RepositoryName  |-> r.name,
                     BaseBranch      |-> "main"],
           err  |-> ""] :
       r \in extractRepositoryInfo(issue, field)}

\* A search that fails at the first issue it cannot convert.
RECURSIVE TasksOfSearchFailing(_, _)
TasksOfSearchFailing(res, field) ==
    IF res.failed
    THEN {[tasks |-> <<>>, err |-> "failed to search issues"]}
    ELSE IF res.issues = <<>> THEN {[tasks |-> <<>>, err |-> ""]}
    ELSE {IF t.nil \/ rest.err # ""
          THEN [tasks |-> <<>>, err |-> "failed to convert issue to task"]
          ELSE [tasks |-> <<t.task>> \o rest.tasks, err |-> ""] :
            t \in issueToTaskOf(Head(res.issues), field),
            rest \in TasksOfSearchFailing(
                         [res EXCEPT !.issues = Tail(@)], field)}

\* GetTasksByStatus from the point where Issue.Search returned res: the error
\* of the search, or the tasks of the issues that convert, in their order.
RECURSIVE TasksOfSearch(_, _)
TasksOfSearch(res, field) ==
    IF res.failed
    THEN {[tasks |-> <<>>, err |-> "failed to search issues"]}
    ELSE IF res.issues = <<>> THEN {[tasks |-> <<>>, err |-> ""]}
    ELSE {[tasks |-> (IF t.err # "" \/ t.nil THEN <<>> ELSE <<t.task>>)
                         \o rest.tasks,
           err   |-> ""] :
            t \in issueToTaskOf(Head(res.issues), field),
            rest \in TasksOfSearch([res EXCEPT !.issues = Tail(@)], field)}

\* A field value that is a string.
String(s) == [isString |-> TRUE, s |-> s]

\* A field value that is not a string.
Number == [isString |-> FALSE, s |-> <<>>]

\* Issue n of the tracked project, with the fields of Unknowns.
TrackedIssue(n, unknowns) ==
    [Key |-> IssueKey(n), Summary |-> IssueSummary(n), Unknowns |-> unknowns]

\* A map with the one key k.
Field(k, v) == [x \in {k} |-> v]

\* The issues of the tracked project: the reference as owner/repo and as a
\* URL, under the configured name and under keys that contain it; an empty
\* string, no slash, three parts, an empty name, a URL without a name, a
\* number, the reference under another field only, no field at all; and an
\* issue with two matching fields of which one parses to an empty name.
TrackedIssues ==
    <<TrackedIssue(1, Field(<<"Repository">>, String(<<"org", "/", "app">>))),
      TrackedIssue(2, Field(<<"repository">>,
          String(<<" ", "https://github.com/", "org", "/", "lib", " ">>))),
      TrackedIssue(3, Field(<<"Repository">>, String(<<>>))),
      TrackedIssue(4, Field(<<"Repository">>, String(<<"app">>))),
      TrackedIssue(5, Field(<<"Repository">>,
          String(<<"a", "/", "b", "/", "c">>))),
      TrackedIssue(6, Field(<<"Repository">>, String(<<"org", "/">>))),
      TrackedIssue(7, Field(<<"Repository">>,
          String(<<"https://github.com/", "org">>))),
      TrackedIssue(8, Field(<<"Repository">>, Number)),
      TrackedIssue(9, Field(<<"Git", " ", "Repository">>,
          String(<<"https://github.com/", "org", "/", "app", "/",
                   "tree">>))),
      TrackedIssue(10, Field(<<"Team">>, String(<<"org", "/", "app">>))),
      TrackedIssue(11, <<>>),
      TrackedIssue(12, [x \in {<<"Repository">>, <<"Git", " ", "Repository">>}
                          |-> IF x = <<"Repository">>
                              THEN String(<<"org", "/">>)
                              ELSE String(<<"org", "/", "lib">>)])>>

\* The issues of TrackedIssues whose index is in S, in the order of the index.
RECURSIVE IssuesIn(_, _)
IssuesIn(S, n) ==
    IF n > Len(TrackedIssues) THEN <<>>
    ELSE (IF n \in S THEN <<TrackedIssues[n]>> ELSE <<>>)
             \o IssuesIn(S, n + 1)

\* Issue.Search for a status: an error, or the issues in that status, which
\* may be any of the project's issues, up to MaxFound of them.
IssueSearch(status) ==
    {[failed |-> TRUE, issues |-> <<>>]}
        \cup {[failed |-> FALSE, issues |-> IssuesIn(S, 1)] :
                 S \in {T \in SUBSET DOMAIN TrackedIssues :
                           Cardinality(T) <= MaxFound}}

InitTracker ==
    /\ project = "small"
    /\ ctxDone = FALSE
    /\ processedTasks = {}
    /\ taskChan = <<>>
    /\ pollerPc = "idle"
    /\ statusIdx = 1
    /\ pending = <<>>
    /\ queryFailed = FALSE
    /\ lateTicks = 0
    /\ placed = <<>>
    /\ orchPc = "init"
    /\ orchTask = NoTask
    /\ orchErr = ""
    /\ handled = <<>>
    /\ runs = <<>>
    /\ githubActivities = TRUE
    /\ jiraActivities = TRUE
    /\ faults = TRUE
    /\ workspace = [p \in WorkspacePaths |-> NoDir]
    /\ pulls = <<>>
    /\ testEnv = [goOnPath |-> TRUE, goProject |-> TRUE]
    /\ statusReply = NoReply
    /\ response = <<>>
    /\ plans = <<>>
    /\ searched = NoSearch
    /\ pool = NoPool
    /\ loops = <<>>

\* poll calls GetTasksByStatus for a status of the filter.
TrackerSearch ==
    /\ \E k \in DOMAIN statusFilter :
         \E res \in IssueSearch(statusFilter[k]) :
            \E out \in TasksOfSearch(res, customField) :
               searched' = [status |-> statusFilter[k],
                            failed |-> res.failed,
                            issues |-> res.issues,
                            tasks  |-> out.tasks,
                            err    |-> out.err]
    /\ UNCHANGED <<leaderVars, runs, githubActivities, jiraActivities, faults,
                   workspace, pulls, testEnv, statusReply, response, plans,
                   pool, loops>>

NextTracker == TrackerSearch

SpecTracker == InitTracker /\ [][NextTracker]_vars

(***************************************************************************)
(* Properties of the leader process.                                       *)
(***************************************************************************)
InChan(ticketID) ==
    \E i \in DOMAIN taskChan : taskChan[i].JiraTicketID = ticketID

Handled(ticketID) == \E i \in DOMAIN handled : handled[i][1] = ticketID

\* Some call of processTask returned an error.
Failure == \E i \in DOMAIN handled : handled[i][2] # "started"

\* The Poller is blocked in its send: the channel is at capacity and the
\* context is cancelled.
BlockedAtCancel ==
    pollerPc = "send" /\ ctxDone /\ Len(taskChan) = TaskChanCap

\* C1: within one Poller instance a ticket id is placed on the task channel at
\* most once, however many poll cycles and status queries return it.
C1_PlacedAtMostOnce ==
    \A i, j \in DOMAIN placed : placed[i] = placed[j] => i = j

\* A ticket that was placed is returned again by a later query, and the
\* Poller is at its isProcessed test.
C1_Witness ==
    /\ pollerPc = "check"
    /\ Len(placed) >= 2
    /\ Head(pending).JiraTicketID = placed[1]

\* C7: no task that was placed is lost (it is on the channel, being handled, or
\* handled), and after processTask failed for a task the Orchestrator still
\* receives and handles every task on the channel, until the channel is empty
\* and the loop is back in its select, unless the context is cancelled first.
C7_LoopContinuesAfterFailure ==
    /\ [](\A i \in DOMAIN placed :
            \/ InChan(placed[i])
            \/ Handled(placed[i])
            \/ (orchPc \in {"plan", "start"}
                   /\ orchTask.JiraTicketID = placed[i]))
    /\ ((Failure /\ taskChan # <<>>)
           ~> ((taskChan = <<>> /\ orchPc = "select") \/ ctxDone))

\* Plan generation failed for a task and a task received after it was started,
\* the context still live.
C7_Witness ==
    /\ ~ctxDone
    /\ Len(handled) >= 2
    /\ handled[1][2] = "plan error"
    /\ handled[Len(handled)][2] = "started"

\* C8: when the context is cancelled while the Poller is blocked on the full
\* channel, the Poller's next step is the return of poll, which places no
\* task, and the Poller does not stay blocked.
C8_BlockedPollReturns ==
    /\ [][(BlockedAtCancel /\ pollVars' # pollVars)
            => (pollerPc' = "wait" /\ placed' = placed
                /\ taskChan' = taskChan)]_vars
    /\ (BlockedAtCancel ~> pollerPc # "send")

\* poll returned on the cancellation with the channel full: a ticket is
\* marked processed and was not placed.
C8_Witness ==
    /\ pollerPc = "wait"
    /\ ctxDone
    /\ lateTicks = 0
    /\ Len(taskChan) = TaskChanCap
    /\ Cardinality(processedTasks) > Len(placed)

\* C12: Orchestrator.Start has returned only if the context is cancelled, and
\* then it returned the cancellation cause; it returns no other error, whatever
\* planning and start errors occurred and however often the channel was empty.
C12_ReturnsOnlyOnCancel ==
    /\ orchPc = "returned" => (ctxDone /\ orchErr = "context canceled")
    /\ orchErr # "" => orchPc = "returned"

\* The loop returned on the cancellation after a planning error and with the
\* channel empty.
C12_Witness ==
    /\ orchPc = "returned"
    /\ taskChan = <<>>
    /\ \E i \in DOMAIN handled : handled[i][2] = "plan error"

\* C13: when the first failed query of a poll cycle is the one of a status
\* that is not the last of the filter, the poll goes on to query the next
\* status, and after a cycle with a failed query the next cycle begins with
\* the first status again, unless the context is cancelled.
C13_QueryFailureIsolated ==
    /\ [][(pollerPc = "query" /\ ~queryFailed /\ queryFailed')
            => IF statusIdx < Len(statusFilter)
               THEN pollerPc' = "query" /\ statusIdx' = statusIdx + 1
               ELSE pollerPc' = "wait"]_vars
    /\ ((queryFailed /\ ~ctxDone)
           ~> ((~queryFailed /\ pollerPc = "query" /\ statusIdx = 1)
                  \/ ctxDone))

\* The query of the first status failed and a task the second status returned
\* is being placed.
C13_Witness ==
    /\ queryFailed
    /\ ~ctxDone
    /\ statusIdx = 2
    /\ pollerPc = "send"
    /\ Len(taskChan) < TaskChanCap

\* A ticket that was marked processed was placed, or is the one the Poller is
\* about to place.
NotDropped(ticketID) ==
    \/ \E i \in DOMAIN placed : placed[i] = ticketID
    \/ (pollerPc = "send" /\ Head(pending).JiraTicketID = ticketID)

\* C20: the channel never holds more than TaskChanCap tasks; while it holds
\* TaskChanCap and the context is live, the Poller at its send does not move;
\* while the context is live no processed ticket goes unplaced, and the Poller
\* eventually gets past the blocked send unless the context is cancelled.
C20_BoundedQueueBackpressure ==
    /\ [](Len(taskChan) <= TaskChanCap)
    /\ [](~ctxDone => \A k \in processedTasks : NotDropped(k))
    /\ [][(pollerPc = "send" /\ Len(taskChan) = TaskChanCap /\ ~ctxDone)
            => pollVars' = pollVars /\ placed' = placed]_vars
    /\ ((pollerPc = "send" /\ Len(taskChan) = TaskChanCap)
           ~> (pollerPc # "send" \/ ctxDone))

\* The Poller waits at its send with the channel full and the context live:
\* the tickets placed so far are all on the channel.
C20_Witness ==
    /\ pollerPc = "send"
    /\ Len(taskChan) = TaskChanCap
    /\ ~ctxDone
    /\ Cardinality(processedTasks) = Len(placed) + 1

\* C21: the Poller's first step is the query of the first status, without a
\* tick; from Start's select it leaves only by a tick, to the query of the
\* first status, or by returning on the cancelled context; within a cycle the
\* query of a status is reached only from the query of the status before it
\* in the filter, once no task of that status remains to be placed.
C21_PollCycleOrder ==
    [][/\ (pollerPc = "idle" /\ pollerPc' # "idle")
            => (pollerPc' = "query" /\ statusIdx' = 1 /\ placed' = <<>>)
       /\ (pollerPc = "wait" /\ pollerPc' # "wait")
            => \/ (pollerPc' = "query" /\ statusIdx' = 1)
               \/ (pollerPc' = "stopped" /\ ctxDone)
       /\ (pollerPc' = "query" /\ pollVars' # pollVars)
            => \/ (pollerPc \in {"idle", "wait"} /\ statusIdx' = 1)
               \/ (/\ pollerPc \in {"query", "check", "send"}
                   /\ statusIdx' = statusIdx + 1
                   /\ statusIdx' <= 2
                   /\ Len(pending) <= 1
                   /\ pending' = <<>>)
       /\ statusIdx' # statusIdx
            => \/ (statusIdx' = statusIdx + 1 /\ pollerPc' = "query")
               \/ (statusIdx' = 1 /\ pollerPc' = "wait")]_vars

\* A tick has started a further cycle, at the query of the first status, after
\* an earlier cycle placed tasks and returned to Start's select.
C21_Witness ==
    /\ pollerPc = "query"
    /\ statusIdx = 1
    /\ ~ctxDone
    /\ Len(placed) >= 2
    /\ Cardinality(processedTasks) = Len(placed)

\* C22: when processTask returns without an error the execution it asked for
\* has just been opened and has executed nothing, and the loop is back in its
\* select; no step of an execution changes the Orchestrator's state, and the
\* only error Orchestrator.Start returns is the cancellation cause.
C22_StartDoesNotAwaitOutcome ==
    /\ [][(handled' # handled /\ handled'[Len(handled')][2] = "started")
            => /\ orchPc' = "select"
               /\ Len(runs') = Len(runs) + 1
               /\ runs'[Len(runs')].input.Task = orchTask
               /\ runs'[Len(runs')].status = "Running"
               /\ runs'[Len(runs')].step = 1
               /\ runs'[Len(runs')].log = <<>>]_vars
    /\ [][(\E i \in DOMAIN runs : runs'[i] # runs[i])
            => orchVars' = orchVars]_vars
    /\ [](orchErr \in {"", "context canceled"})

\* The execution started for issue 2 has failed at its first step while the
\* one started before it, for issue 1, is still running its last activity; the
\* Orchestrator is in its select and has recorded both tasks as started.
C22_Witness ==
    /\ Len(runs) = 2
    /\ runs[1].status = "Running"
    /\ runs[1].step = 7
    /\ runs[1].activity = "started"
    /\ runs[2].status = "Failed"
    /\ runs[2].stepErr[1] # ""
    /\ runs[1].id # runs[2].id
    /\ orchPc = "select"
    /\ orchErr = ""
    /\ ~ctxDone
    /\ \A i \in DOMAIN handled : handled[i][2] = "started"

(***************************************************************************)
(* Properties of the pipeline.                                             *)
(***************************************************************************)
Started(run, n) == \E p \in DOMAIN run.log : run.log[p] = <<"start", n>>

Returned(run, n) == \E p \in DOMAIN run.log : run.log[p] = <<"return", n>>

IsStart(e) == e[1] = "start"

\* Step 4 is over and did not pass: its activity failed, or the tests did.
TestsFailed(run) ==
    /\ Returned(run, 4)
    /\ run.stepErr[4] # CanceledError
    /\ ~run.testResult.Passed

\* C2: a run invokes its steps in the order 1 to 7: the k-th activity it
\* starts is the one of step k, step N+1 is started only after step N's
\* activity returned, and a run that completes with no cancel request has
\* started all seven.
C2_StepOrder ==
    \A i \in DOMAIN runs :
        LET log    == runs[i].log
            starts == SelectSeq(log, IsStart)
        IN /\ \A k \in DOMAIN starts : starts[k][2] = k
           /\ \A p \in DOMAIN log :
                (log[p][1] = "start" /\ log[p][2] > 1)
                    => \E q \in 1..(p - 1) :
                           log[q] = <<"return", log[p][2] - 1>>
           /\ (runs[i].status = "Completed" /\ ~runs[i].cancelRequested)
                  => Len(starts) = 7

\* A run with no cancel request completed: seven starts and seven returns.
C2_Witness ==
    \E i \in DOMAIN runs :
        /\ runs[i].status = "Completed"
        /\ ~runs[i].cancelRequested
        /\ Len(runs[i].log) = 14

\* C3: when the activity of step 1, 2, 3, 5 or 6 ends with an error, the run
\* is Failed with that error as its cause, its result is no pull request, and
\* no later step was started.
C3_FatalStepFails ==
    \A i \in DOMAIN runs : \A n \in {1, 2, 3, 5, 6} :
        (Returned(runs[i], n) /\ runs[i].stepErr[n] \notin {"", CanceledError})
            => /\ runs[i].status = "Failed"
               /\ runs[i].err = runs[i].stepErr[n]
               /\ runs[i].result = NilPRInfo
               /\ \A m \in (n + 1)..7 : ~Started(runs[i], m)

\* A run failed at the commit, after the tests ran.
C3_Witness ==
    \E i \in DOMAIN runs :
        /\ runs[i].status = "Failed"
        /\ runs[i].step = 5
        /\ runs[i].err = "failed to push branch"
        /\ Returned(runs[i], 4)

\* C4: when step 4 fails (its activity errors or the tests do not pass) and
\* no cancellation is requested, the run goes on to step 5; it can only fail
\* at step 5 or 6 with that step's error, and once step 7 returned it is
\* Completed, with steps 5, 6 and 7 started.
C4_TestFailureTolerated ==
    \A i \in DOMAIN runs :
        (TestsFailed(runs[i]) /\ ~runs[i].cancelRequested)
            => /\ runs[i].step >= 5
               /\ runs[i].status \in {"Running", "Failed", "Completed"}
               /\ runs[i].status = "Failed"
                      => /\ runs[i].step \in {5, 6}
                         /\ runs[i].err = runs[i].stepErr[runs[i].step]
                         /\ runs[i].err # ""
               /\ runs[i].status = "Completed" <=> Returned(runs[i], 7)
               /\ Returned(runs[i], 7)
                      => \A m \in {5, 6, 7} : Started(runs[i], m)

\* The testing activity timed out on every attempt and the run completed.
C4_Witness ==
    \E i \in DOMAIN runs :
        /\ runs[i].stepErr[4] = TimeoutError
        /\ ~runs[i].cancelRequested
        /\ runs[i].status = "Completed"
        /\ runs[i].stepErr[7] = ""

\* C5: when step 7 ends with an error, the run is Completed and its result is
\* the pull request step 6 produced.
C5_JiraFailureTolerated ==
    \A i \in DOMAIN runs :
        (Returned(runs[i], 7) /\ runs[i].stepErr[7] \notin {"", CanceledError})
            => /\ runs[i].status = "Completed"
               /\ runs[i].err = ""
               /\ runs[i].result = runs[i].prResult.PRInfo
               /\ ~runs[i].result.nil
               /\ \A n \in {1, 2, 3, 5, 6} : runs[i].stepErr[n] = ""

\* The tracker update failed on every attempt.
C5_Witness ==
    \E i \in DOMAIN runs :
        /\ runs[i].stepErr[7] = "failed to add comment"
        /\ runs[i].status = "Completed"
        /\ runs[i].result.Head = runs[i].FeatureBranch

\* C6: whatever the sequence of start requests, the runtime creates at most
\* one execution for a workflow id.
C6_OneRunPerWorkflowID ==
    \A i, j \in DOMAIN runs : runs[i].id = runs[j].id => i = j

\* C9: a run whose cancellation was requested while the attempt of a step was
\* in progress closes as Canceled, and no later step is started.
C9_CancelledRunEndsCanceled ==
    \A i \in DOMAIN runs :
        (runs[i].cancelledAt > 0 /\ runs[i].status # "Running")
            => /\ runs[i].status = "Canceled"
               /\ \A m \in (runs[i].cancelledAt + 1)..7 : ~Started(runs[i], m)

\* C10: an activity is attempted at most MaximumAttempts times, a run is
\* Failed only after MaximumAttempts failed attempts of a fatal step, and a
\* step whose activity returned without error is followed by the next one.
C10_RetryPolicy ==
    \A i \in DOMAIN runs :
        /\ runs[i].attempt <= MaximumAttempts
        /\ runs[i].status = "Failed"
               => /\ runs[i].attempt = MaximumAttempts
                  /\ runs[i].step \in {1, 2, 3, 5, 6}
                  /\ runs[i].stepErr[runs[i].step] # ""
        /\ \A n \in 1..7 :
               (Returned(runs[i], n) /\ runs[i].stepErr[n] = "")
                   => (runs[i].step > n \/ runs[i].status = "Completed")

\* An attempt failed and was retried, and every step ended without error.
C10_Witness ==
    \E i \in DOMAIN runs :
        /\ runs[i].retried
        /\ runs[i].status = "Completed"
        /\ \A n \in 1..7 : runs[i].stepErr[n] = ""

\* C11: once the execution a workflow id names is Completed or Failed, no
\* later step changes the status, result, error or activity log that the id
\* names.
C11_TerminalStateImmutable ==
    [][\A i \in DOMAIN runs :
         (runs[i].status \in {"Completed", "Failed"}
            /\ i = GetWorkflow(runs, runs[i].id))
           => LET j == GetWorkflow(runs', runs[i].id)
              IN /\ runs'[j].status = runs[i].status
                 /\ runs'[j].result = runs[i].result
                 /\ runs'[j].err = runs[i].err
                 /\ runs'[j].log = runs[i].log]_vars

\* C14: the id of every execution is "implementation-<ticket id>-<repository
\* name>" of the start request that opened it, and two executions opened for
\* the same ticket id and repository name have the same id.
C14_WorkflowIDDeterministic ==
    /\ \A i \in DOMAIN runs :
         runs[i].id = "implementation-" \o runs[i].input.Task.JiraTicketID
                          \o "-" \o runs[i].input.Task.RepositoryName
    /\ \A i, j \in DOMAIN runs :
         (/\ runs[i].input.Task.JiraTicketID = runs[j].input.Task.JiraTicketID
          /\ runs[i].input.Task.RepositoryName
                 = runs[j].input.Task.RepositoryName)
           => runs[i].id = runs[j].id

\* Two executions were opened by start requests that differ in the owner and
\* the title, and have one id.
C14_Witness ==
    \E i, j \in DOMAIN runs :
        /\ runs[i].input.Task.RepositoryOwner
               # runs[j].input.Task.RepositoryOwner
        /\ runs[i].input.Task.Title # runs[j].input.Task.Title
        /\ runs[i].id = runs[j].id

(***************************************************************************)
(* Properties of the workspace and of GitHub.                              *)
(***************************************************************************)
\* The feature branch of a run and the path of its repository's directory.
RunBranch(run) ==
    generateBranchName(run.input.Task.JiraTicketID, run.input.Task.Title)

RunPath(run) ==
    GetRepositoryPath(run.input.Repository.Owner, run.input.Repository.Name)

\* C15: an attempt of step 2 that finds the run's feature branch already in
\* the run's own directory (an earlier attempt created it) ends without error
\* and leaves that branch checked out.
C15_CreateBranchRerunSucceeds ==
    [][\A i \in DOMAIN runs :
         (/\ runs[i].status = "Running"
          /\ runs[i].step = 2
          /\ runs[i].activity = "started"
          /\ runs'[i] # runs[i]
          /\ workspace[RunPath(runs[i])].writer = runs[i].id
          /\ RunBranch(runs[i]) \in workspace[RunPath(runs[i])].branches)
           => /\ runs'[i].lastErr = ""
              /\ workspace'[RunPath(runs[i])].head = RunBranch(runs[i])]_vars

C17_WorkspaceExclusive ==
    \A i \in DOMAIN runs :
        (/\ runs[i].status = "Running"
         /\ Returned(runs[i], 1)
         /\ ~Returned(runs[i], 5))
          => workspace[runs[i].cloneResult.RepositoryPath].writer = runs[i].id

\* C18: step 4 runs a test command only in a repository in which a project
\* type is recognizable, and in any other it reports the tests as passed.
C18_TestsOnlyForRecognizedProject ==
    \A i \in DOMAIN runs :
        (Returned(runs[i], 4) /\ runs[i].stepErr[4] = "")
          => /\ runs[i].testResult.Output # "" => testEnv.goProject
             /\ ~testEnv.goProject => runs[i].testResult.Passed

(***************************************************************************)
(* Properties of the status query.                                         *)
(***************************************************************************)
\* C19: a status query for an id with no execution is answered not found; one
\* for an id whose latest execution is closed is not answered running; one for
\* an id whose latest execution is Failed reports the failure and its cause.
C19_StatusReportsOutcome ==
    [][statusReply' # statusReply
         => LET id   == statusReply'.WorkflowID
                mine == {i \in DOMAIN runs : runs[i].id = id}
            IN IF mine = {}
               THEN statusReply'.code = 404
                        \/ statusReply'.Status = "not_found"
               ELSE LET run == runs[GetWorkflow(runs, id)]
                    IN /\ run.status # "Running"
                            => statusReply'.Status # "running"
                       /\ run.status = "Failed"
                            => /\ statusReply'.Status = "failed"
                               /\ statusReply'.ErrorMessage = run.err]_vars

\* C29: when an attempt of step 1 ends and a directory existed at the
\* repository's path, nothing of that directory remains: after a successful
\* clone the path holds the fresh clone, with the base branch as its only
\* branch, checked out, and nothing committed; after a failed one it holds a
\* directory that is no repository.
C29_CloneReplacesWorkspace ==
    [][\A i \in DOMAIN runs :
          (/\ runs[i].step = 1
           /\ runs[i].activity = "started"
           /\ runs'[i] # runs[i]
           /\ workspace[RunPath(runs[i])].exists)
              => LET d    == workspace'[RunPath(runs[i])]
                     base == <<runs[i].input.Repository.BaseBranch>>
                 IN /\ d.exists
                    /\ d.writer = runs[i].id
                    /\ ~d.committed
                    /\ IF runs'[i].step = 2
                       THEN /\ d.cloned
                            /\ d.branches = {base}
                            /\ d.head = base
                       ELSE /\ ~d.cloned
                            /\ d.branches = {}]_vars

\* The clone of one run has replaced the directory in which another run had
\* created its feature branch.
C29_Witness ==
    \E i, j \in DOMAIN runs :
        /\ i # j
        /\ RunPath(runs[i]) = RunPath(runs[j])
        /\ runs[j].FeatureBranch # <<>>
        /\ runs[i].step = 2
        /\ workspace[RunPath(runs[i])].writer = runs[i].id
        /\ workspace[RunPath(runs[i])].branches = {<<"main">>}

(***************************************************************************)
(* Properties of the names ImplementationWorkflow generates.               *)
(***************************************************************************)
\* The characters of a branch name's last part.
BranchChars ==
    {"a", "b", "c", "d", "e", "f", "g", "h", "i", "j", "k", "l", "m", "n",
     "o", "p", "q", "r", "s", "t", "u", "v", "w", "x", "y", "z", "A", "B",
     "C", "D", "E", "F", "G", "H", "I", "J", "K", "L", "M", "N", "O", "P",
     "Q", "R", "S", "T", "U", "V", "W", "X", "Y", "Z", "0", "1", "2", "3",
     "4", "5", "6", "7", "8", "9", "-", "_"}

\* The characters cs with letters, digits, '-' and '_' kept, each space turned
\* into '-' and every other character dropped.
RECURSIVE Slug(_)
Slug(cs) ==
    IF cs = <<>> THEN <<>>
    ELSE IF Head(cs) = " " THEN <<"-">> \o Slug(Tail(cs))
    ELSE IF Head(cs) \in BranchChars THEN <<Head(cs)>> \o Slug(Tail(cs))
    ELSE Slug(Tail(cs))

\* The first n elements of the sequence cs.
FirstN(cs, n) == SubSeq(cs, 1, IF Len(cs) < n THEN Len(cs) ELSE n)

\* The feature branch of the run is "khitomer/<ticketId>-" followed by s.
BranchIs(run, s) ==
    run.FeatureBranch = <<"khitomer/", run.input.Task.JiraTicketID, "-">> \o s

\* The run has created its feature branch.
Named(run) == run.FeatureBranch # <<>>

\* C23 as stated: s is made from the first 30 characters of the title.
C23_BranchFromFirst30Characters ==
    \A i \in DOMAIN runs :
        Named(runs[i])
            => BranchIs(runs[i],
                        Slug(FirstN(Runes(runs[i].input.Task.Title), 30)))

\* C23: the feature branch name is "khitomer/<ticketId>-<s>", where s is made
\* from the first 30 bytes of the title in UTF-8 (a character the cut falls
\* into is dropped) by keeping letters, digits, '-' and '_', turning each
\* space into '-' and dropping every other character; s has at most 30
\* characters, all in [A-Za-z0-9_-], and title "Fix login bug!!" with ticket
\* PROJ-1 gives khitomer/PROJ-1-Fix-login-bug.
C23_BranchFromFirst30Bytes ==
    \A i \in DOMAIN runs :
        LET title == runs[i].input.Task.Title
            s == SubSeq(runs[i].FeatureBranch, 4, Len(runs[i].FeatureBranch))
        IN Named(runs[i])
             => /\ BranchIs(runs[i], Slug(Runes(FirstN(title, 30))))
                /\ Len(s) <= 30
                /\ \A k \in DOMAIN s : s[k] \in BranchChars
                /\ title = ExampleTitle
                     => runs[i].FeatureBranch =
                          <<"khitomer/", "PROJ-1", "-", "F", "i", "x", "-",
                            "l", "o", "g", "i", "n", "-", "b", "u", "g">>

\* A run has created the branch of a title that is longer than 30 bytes and
\* whose thirtieth byte is the first byte of U+00E9.
C23_Witness ==
    \E i \in DOMAIN runs :
        /\ Named(runs[i])
        /\ Len(runs[i].input.Task.Title) > 30
        /\ runs[i].input.Task.Title[30] = LeadByte
        /\ runs[i].FeatureBranch \in workspace[RunPath(runs[i])].branches

\* Every one of the seven activities of the run returned without an error.
AllStepsSucceeded(run) ==
    \A n \in 1..7 :
        /\ \E p \in DOMAIN run.log : run.log[p] = <<"return", n>>
        /\ run.stepErr[n] = ""

\* C24: a run whose seven steps all succeeded is Completed; a pull request was
\* opened in the task's repository from the generated feature branch to the
\* base branch, and the PRInfo the run returns has the title
\* "<ticketId>: <task title>" and the URL of that pull request.
C24_SucceededRunOpensTitledPR ==
    \A i \in DOMAIN runs :
        LET task == runs[i].input.Task
        IN AllStepsSucceeded(runs[i])
             => /\ runs[i].status = "Completed"
                /\ runs[i].err = ""
                /\ ~runs[i].result.nil
                /\ runs[i].result.Title = <<task.JiraTicketID, ": ">>
                                              \o task.Title
                /\ BranchIs(runs[i], Slug(Runes(FirstN(task.Title, 30))))
                /\ \E k \in DOMAIN pulls :
                     /\ pulls[k] = [Owner |-> task.RepositoryOwner,
                                    Repo  |-> task.RepositoryName,
                                    Head  |-> runs[i].FeatureBranch,
                                    Base  |-> task.BaseBranch]
                     /\ runs[i].result.PRURL =
                          "https://github.com/" \o task.RepositoryOwner
                              \o "/" \o task.RepositoryName \o "/pull/"
                              \o ToString(k)

\* A run for a title longer than 30 bytes has completed with all seven steps
\* succeeded, one of them after a retry.
C24_Witness ==
    \E i \in DOMAIN runs :
        /\ AllStepsSucceeded(runs[i])
        /\ runs[i].retried
        /\ Len(runs[i].input.Task.Title) > 30
        /\ Len(pulls) = 1

(***************************************************************************)
(* Properties of the planner.                                              *)
(***************************************************************************)
\* The call of Plan recorded in e returned a plan.
Planned(e) == e.out.err = ""

\* C25: a call of Plan returns an error if and only if the completion backend
\* returned an error or no candidate, and it returns no plan exactly when it
\* returns an error; parsing the text of the behaviour returns a plan and no
\* error for either issue.
C25_PlanFailsOnlyOnBackend ==
    /\ \A k \in DOMAIN plans :
         /\ ~Planned(plans[k])
              <=> (plans[k].resp.err \/ plans[k].resp.Choices = <<>>)
         /\ plans[k].out.plan.nil <=> ~Planned(plans[k])
    /\ \A n \in PlanIssues :
         /\ parseResponse(response, issueToTask(n)).err = ""
         /\ ~parseResponse(response, issueToTask(n)).plan.nil

\* After a call that failed for want of a candidate, a call returned a plan
\* for a text in which no line is one the format asks for.
C25_Witness ==
    /\ Len(plans) = 2
    /\ plans[1].out.err = "no response from AI"
    /\ Planned(plans[2])
    /\ response = <<"Fix", " ", "[TYPE:", "review", "\n", "Thanks">>
    /\ plans[2].out.plan.Steps = <<>>

\* A line that begins, after its leading spaces, with the SUMMARY: marker.
IsSummaryLine(l) == TrimSpace(l) # <<>> /\ Head(TrimSpace(l)) = "SUMMARY:"

\* The SUMMARY: lines of a text, in order.
SummaryLines(text) == SelectSeq(Split(text, "\n"), IsSummaryLine)

\* The text of a SUMMARY: line after the marker, without the spaces around it.
SummaryText(l) == TrimSpace(Tail(TrimSpace(l)))

DefaultSummary(ticket) == <<"Implementation plan for ", ticket>>

\* C26 as stated: without a SUMMARY: line, or with one whose text is empty,
\* the summary is the default; with one whose text is not empty, it is that
\* text.
C26_SummaryOfAnySummaryLine ==
    \A k \in DOMAIN plans :
        LET ls  == SummaryLines(response)
            sum == plans[k].out.plan.Summary
        IN Planned(plans[k])
             => /\ ls = <<>> => sum = DefaultSummary(plans[k].ticket)
                /\ \A i \in DOMAIN ls :
                     IF SummaryText(ls[i]) = <<>>
                     THEN sum = DefaultSummary(plans[k].ticket)
                     ELSE sum = SummaryText(ls[i])

\* C26: a response with no SUMMARY: line, or whose last SUMMARY: line has empty
\* text, yields a plan whose summary is "Implementation plan for <ticketId>";
\* otherwise the summary is the trimmed text of the last SUMMARY: line.
C26_SummaryOfLastSummaryLine ==
    \A k \in DOMAIN plans :
        LET ls  == SummaryLines(response)
            sum == plans[k].out.plan.Summary
        IN Planned(plans[k])
             => IF ls = <<>> \/ SummaryText(ls[Len(ls)]) = <<>>
                THEN sum = DefaultSummary(plans[k].ticket)
                ELSE sum = SummaryText(ls[Len(ls)])

\* Plans were returned for both issues from a text whose first SUMMARY: line
\* has text and whose last one has none.
C26_Witness ==
    /\ Len(plans) = 2
    /\ Planned(plans[1])
    /\ Planned(plans[2])
    /\ plans[1].ticket # plans[2].ticket
    /\ Len(SummaryLines(response)) = 2
    /\ SummaryText(SummaryLines(response)[1]) # <<>>
    /\ SummaryText(SummaryLines(response)[2]) = <<>>

\* The markers that head a line of their own.
LineMarkers ==
    {"SUMMARY:", "STEPS:", "FILES_MODIFY:", "FILES_CREATE:", "COMPLEXITY:"}

\* A line that parseResponse reads as a step when it is in the steps section.
IsStepLine(l) == TrimSpace(l) # <<>> /\ Head(TrimSpace(l)) \notin LineMarkers

\* The text is the STEPS: marker followed by step lines only.
StepsOnly(text) ==
    LET ls == Split(text, "\n")
    IN /\ Len(ls) >= 2
       /\ TrimSpace(ls[1]) = <<"STEPS:">>
       /\ \A k \in 2..Len(ls) : IsStepLine(ls[k])

\* The line has a [TYPE: annotation with its closing bracket.
Annotated(l) ==
    \E i, j \in DOMAIN l : i < j /\ l[i] = "[TYPE:" /\ l[j] = "]"

\* The tag of an annotated line: what stands between the first [TYPE: and the
\* first closing bracket after it, without the spaces around it.
Tag(l) ==
    LET i == CHOOSE a \in DOMAIN l :
                 l[a] = "[TYPE:" /\ \A b \in 1..(a - 1) : l[b] # "[TYPE:"
        j == CHOOSE a \in (i + 1)..Len(l) :
                 l[a] = "]" /\ \A b \in (i + 1)..(a - 1) : l[b] # "]"
    IN TrimSpace(SubSeq(l, i + 1, j - 1))

\* C27: a step line without an annotation, with an empty one or with one that
\* lacks its closing bracket gets the type codegen; a step line with a
\* well-formed annotation that is not empty gets its tag as the type, and
\* the description holds no annotation.
C27_StepTypeFromAnnotation ==
    \A k \in DOMAIN plans :
        (Planned(plans[k]) /\ StepsOnly(response))
            => LET ls    == Split(response, "\n")
                   steps == plans[k].out.plan.Steps
               IN /\ Len(steps) = Len(ls) - 1
                  /\ \A n \in DOMAIN steps :
                       IF Annotated(ls[n + 1]) /\ Tag(ls[n + 1]) # <<>>
                       THEN /\ steps[n].ActivityType = Tag(ls[n + 1])
                            /\ \A d \in DOMAIN steps[n].Description :
                                 steps[n].Description[d] # "[TYPE:"
                       ELSE steps[n].ActivityType = <<"codegen">>

IsWord(p) == p \notin {" ", "/", "https://github.com/"}

\* A field value without the spaces around it; the values of TrackedIssues
\* have no space inside.
Core(s) == SelectSeq(s, LAMBDA p : p # " ")

\* The value has the form "owner/repo".
OwnerRepo(v) ==
    /\ Len(v) = 3
    /\ IsWord(v[1]) /\ v[2] = "/" /\ IsWord(v[3])

\* The value is a full hosting URL, of a repository or of a path inside one.
HostingURL(v) ==
    /\ Len(v) >= 4
    /\ v[1] = "https://github.com/"
    /\ IsWord(v[2]) /\ v[3] = "/" /\ IsWord(v[4])
    /\ \A i \in 5..Len(v) : i % 2 = 1 <=> v[i] = "/"

\* The field value is a resolvable repository reference.
Resolvable(value) ==
    value.isString /\ (OwnerRepo(Core(value.s)) \/ HostingURL(Core(value.s)))

\* The owner and the name that a resolvable reference names.
Reference(value) ==
    LET v == Core(value.s)
    IN IF OwnerRepo(v) THEN <<v[1], v[3]>> ELSE <<v[2], v[4]>>

\* The keys of the issue's fields that name the configured custom field,
\* whatever the case and whatever stands around the name.
RepositoryFields(issue) ==
    {k \in DOMAIN issue.Unknowns :
        \E i \in DOMAIN k : k[i] \in {"Repository", "repository"}}

\* The issue has no resolvable reference in the configured custom field.
NoReference(issue) ==
    \A k \in RepositoryFields(issue) : ~Resolvable(issue.Unknowns[k])

\* The issue has the configured custom field and only resolvable references
\* in it.
HasReference(issue) ==
    /\ RepositoryFields(issue) # {}
    /\ \A k \in RepositoryFields(issue) : Resolvable(issue.Unknowns[k])

\* The task is the one of the issue, for the repository of one of its fields.
TaskOfIssue(t, issue) ==
    /\ t.JiraTicketID = issue.Key
    /\ t.Title = issue.Summary
    /\ \E k \in RepositoryFields(issue) :
          /\ Resolvable(issue.Unknowns[k])
          /\ <<t.RepositoryOwner, t.RepositoryName>>
                 = Reference(issue.Unknowns[k])

\* C30: when the tracker answered a search by status, the search returns no
\* error; an issue without a resolvable repository reference ("owner/repo" or
\* a full hosting URL) in the configured custom field has no task among the
\* returned ones; every issue with a resolvable reference has its task; and
\* the tasks are tasks of the issues found, in the order of the issues.
C30_UnresolvableItemsAreLeftOut ==
    (searched # NoSearch /\ ~searched.failed) =>
        LET kept == SelectSeq(searched.issues,
                        LAMBDA i : \E n \in DOMAIN searched.tasks :
                                      searched.tasks[n].JiraTicketID = i.Key)
        IN /\ searched.err = ""
           /\ \A n \in DOMAIN searched.issues :
                 NoReference(searched.issues[n]) =>
                     \A m \in DOMAIN searched.tasks :
                        searched.tasks[m].JiraTicketID
                            # searched.issues[n].Key
           /\ \A n \in DOMAIN searched.issues :
                 HasReference(searched.issues[n]) =>
                     \E m \in DOMAIN searched.tasks :
                        TaskOfIssue(searched.tasks[m], searched.issues[n])
           /\ Len(kept) = Len(searched.tasks)
           /\ \A m \in DOMAIN searched.tasks :
                 TaskOfIssue(searched.tasks[m], kept[m])

\* A search found an issue whose field holds neither form of reference and,
\* after it, an issue with a reference, and returned the task of the second
\* alone.
C30_Witness ==
    /\ searched # NoSearch
    /\ ~searched.failed
    /\ Len(searched.issues) = 2
    /\ RepositoryFields(searched.issues[1]) # {}
    /\ NoReference(searched.issues[1])
    /\ HasReference(searched.issues[2])
    /\ Len(searched.tasks) = 1
    /\ searched.tasks[1].JiraTicketID = searched.issues[2].Key
    /\ searched.err = ""

(***************************************************************************)
(* Properties of the pool of workers, in SpecPool.                         *)
(***************************************************************************)
\* C31: every attempt of a step after step 1 that works in the workspace
\* (branch creation, code generation, tests, commit and push) is made on the
\* disk of the worker on which step 1 of the run created the workspace.
C31_StepsUseWorkspaceOfStep1 ==
    (pool.last # <<>> /\ pool.last[2] \in 2..5) =>
        pool.last[3] = pool.clonedOn

(***************************************************************************)
(* Properties of the activities' results, in SpecUninitialized.            *)
(***************************************************************************)
\* C32: the pipeline is past step 1, 2, 5 or 6 only when the result of that
\* step's activity has Success = TRUE, also on a worker whose activity
\* implementation was never set.
C32_NoAdvancePastUnsuccessfulStep ==
    \A i \in DOMAIN runs :
        /\ runs[i].step > 1 => runs[i].cloneResult.Success
        /\ runs[i].step > 2 => runs[i].branchResult.Success
        /\ runs[i].step > 5 => runs[i].commitResult.Success
        /\ runs[i].step > 6 => runs[i].prResult.Success

\* C33: once Get has returned no error for step 6, the result holds a pull
\* request (PRInfo is not nil), so that the workflow reads its URL for step 7
\* and returns it, and does not panic on a nil PRInfo.
C33_HandlePresentAfterStep6 ==
    \A i \in DOMAIN runs :
        (/\ \E k \in DOMAIN runs[i].log : runs[i].log[k] = <<"return", 6>>
         /\ runs[i].stepErr[6] = "") =>
            /\ ~runs[i].prResult.PRInfo.nil
            /\ ~runs[i].panicked

(***************************************************************************)
(* Properties of the Poller's dedup set and of cancellation, in Spec and   *)
(* SpecFair.                                                               *)
(***************************************************************************)
\* The ticket id is in the dedup set, was not placed on the channel, and is
\* not the one whose placement is pending in poll's select.
Abandoned(id) ==
    /\ id \in processedTasks
    /\ \A k \in DOMAIN placed : placed[k] # id
    /\ ~(pollerPc = "send" /\ Head(pending).JiraTicketID = id)

\* C34: a task is placed on the channel only from poll's select and only
\* when its ticket id is in the dedup set already; the set never loses an
\* id; when cancellation interrupts the select, the id of the task stays in
\* the set unplaced; and an id that is in the set unplaced, with no
\* placement pending, stays so in every later step: it is never placed.
C34_MarkedBeforePlaced ==
    [][/\ placed' # placed =>
            /\ pollerPc = "send"
            /\ Head(pending).JiraTicketID \in processedTasks
            /\ placed' = Append(placed, Head(pending).JiraTicketID)
       /\ processedTasks \subseteq processedTasks'
       /\ (pollerPc = "send" /\ pollerPc' # "send" /\ placed' = placed) =>
            /\ ctxDone
            /\ \A n \in 1..NumIssues :
                  Head(pending).JiraTicketID = IssueKey(n) =>
                      Abandoned(IssueKey(n))'
       /\ \A n \in 1..NumIssues :
            Abandoned(IssueKey(n)) => Abandoned(IssueKey(n))']_vars

\* After cancellation interrupted the placement of a task, a later poll
\* cycle found the same ticket again and is about to test the dedup set.
C34_Witness ==
    /\ pollerPc = "check"
    /\ Abandoned(Head(pending).JiraTicketID)

\* C35: a ticket for which processTask returned an error (of plan generation
\* or of the start request) was placed on the channel once and handled once;
\* it is not on the channel and not being handled again, whatever the later
\* poll cycles return.
C35_FailedTaskNotHandledAgain ==
    \A k \in DOMAIN handled :
        handled[k][2] \in {"plan error", "start error"} =>
            /\ Cardinality({j \in DOMAIN placed :
                              placed[j] = handled[k][1]}) = 1
            /\ Cardinality({j \in DOMAIN handled :
                              handled[j][1] = handled[k][1]}) = 1
            /\ \A j \in DOMAIN taskChan :
                  taskChan[j].JiraTicketID # handled[k][1]
            /\ ~(orchPc \in {"plan", "start"}
                    /\ orchTask.JiraTicketID = handled[k][1])

\* While the context is live, a later poll cycle returned a ticket whose
\* handling had failed, and the Poller is at its isProcessed test for it.
C35_Witness ==
    /\ ~ctxDone
    /\ pollerPc = "check"
    /\ \E k \in DOMAIN handled :
          /\ handled[k][2] \in {"plan error", "start error"}
          /\ handled[k][1] = Head(pending).JiraTicketID

\* C37: once the context is cancelled, no step of the Poller starts a poll
\* cycle or places a task on the channel, and no step of the Orchestrator
\* receives a task to handle.
C37_NothingNewAfterCancel ==
    [][ctxDone =>
          /\ ~(pollerPc = "wait" /\ pollerPc' = "query")
          /\ placed' = placed
          /\ ~(orchPc = "select" /\ orchPc' = "plan")]_vars

\* C38: the tasks whose processTask has returned are the first tasks placed
\* on the channel, in the order of their placement; the task processTask is
\* handling is the one placed next after them, so that plan generation for a
\* task begins only when plan generation and the start request of every task
\* placed before it have returned; and the tasks placed after it wait on the
\* channel in the order of their placement.
C38_HandledInQueueOrder ==
    LET busy == orchPc \in {"plan", "start"}
        done == Len(handled) + (IF busy THEN 1 ELSE 0)
    IN /\ done + Len(taskChan) = Len(placed)
       /\ \A k \in DOMAIN handled : handled[k][1] = placed[k]
       /\ busy => orchTask.JiraTicketID = placed[Len(handled) + 1]
       /\ \A k \in DOMAIN taskChan :
             taskChan[k].JiraTicketID = placed[done + k]

\* The Orchestrator is in plan generation for a task after processTask
\* returned for an earlier one, and two more tasks wait on the channel.
C38_Witness ==
    /\ orchPc = "plan"
    /\ Len(handled) >= 1
    /\ Len(taskChan) >= 2

\* The last issue of the configured project: in the large project the one
\* that a first poll cycle finds with the channel full.
LastTicket ==
    IF project = "small" THEN IssueKey(NumSmall) ELSE IssueKey(NumIssues)

C36_CheckAndMarkAtomic ==
    /\ \A l, m \in Loops :
          (/\ l # m
           /\ loops[l].pc \in {"mark", "send"}
           /\ loops[m].pc \in {"mark", "send"}) =>
              Head(loops[l].pending).JiraTicketID
                  # Head(loops[m].pending).JiraTicketID
    /\ \A n \in 1..NumSmall :
          Cardinality({k \in DOMAIN placed : placed[k] = IssueKey(n)}) <= 1

(***************************************************************************)
(* Properties of the steps of a parsed plan, in SpecSections.              *)
(***************************************************************************)
\* A line that begins, after its leading spaces, with a marker.
IsMarkerLine(l) == TrimSpace(l) # <<>> /\ Head(TrimSpace(l)) \in LineMarkers

\* Line k of the lines ls stands in a STEPS: section: it is neither blank nor
\* a marker line, and the last marker line before it is a STEPS: line.
InStepsSection(ls, k) ==
    /\ IsStepLine(ls[k])
    /\ \E j \in 1..(k - 1) :
          /\ IsMarkerLine(ls[j])
          /\ Head(TrimSpace(ls[j])) = "STEPS:"
          /\ \A m \in (j + 1)..(k - 1) : ~IsMarkerLine(ls[m])

\* The indices of the lines of ls that stand in a STEPS: section, ascending.
StepLineIndices(ls) ==
    SelectSeq([k \in 1..Len(ls) |-> k], LAMBDA k : InStepsSection(ls, k))

\* The first word of what a step line of SectionLines describes.
StepWord(l) ==
    IF \E i \in DOMAIN l : l[i] = "Add" THEN "Add" ELSE Head(TrimSpace(l))

\* C40: the steps of a parsed plan are those of the lines that stand in a
\* STEPS: section, one step per line in the order of the lines, and step i
\* has the order index i, whatever sections and blank lines stand between
\* the step lines; a line outside a STEPS: section yields no step.
C40_StepsNumberedInLineOrder ==
    \A k \in DOMAIN plans :
        Planned(plans[k]) =>
            LET ls    == Split(response, "\n")
                idx   == StepLineIndices(ls)
                steps == plans[k].out.plan.Steps
            IN /\ Len(steps) = Len(idx)
               /\ \A i \in DOMAIN steps :
                     /\ steps[i].Order = i
                     /\ Head(steps[i].Description) = StepWord(ls[idx[i]])

\* A plan was parsed from a text with a step in each of two STEPS: sections,
\* a line of another section between them, and the steps differ.
C40_Witness ==
    /\ plans # <<>>
    /\ Planned(plans[1])
    /\ LET ls  == Split(response, "\n")
           idx == StepLineIndices(ls)
       IN /\ Len(idx) = 2
          /\ Len(plans[1].out.plan.Steps) = 2
          /\ plans[1].out.plan.Steps[2].Order = 2
          /\ StepWord(ls[idx[1]]) # StepWord(ls[idx[2]])
          /\ \E m \in (idx[1] + 1)..(idx[2] - 2) :
                /\ IsMarkerLine(ls[m])
                /\ Head(TrimSpace(ls[m])) # "STEPS:"

====
